---- MODULE Spec2Model ----
(***************************************************************************)
(* The process-local response cache of src/src/app/api/alpaca/route.ts:    *)
(* the GET handler, its seven cached endpoints, the cache-status listing   *)
(* and the construction of cache keys.                                     *)
(*                                                                         *)
(* A string is modelled as a sequence of tokens.  The literal fragments of *)
(* the source ("spy-bars", "alpaca-account", ...) are single tokens; the   *)
(* characters the code inspects (":" and "T") are tokens of their own, so  *)
(* that template concatenation, split('T')[0] and includes() are computed  *)
(* as the code computes them.                                              *)
(*                                                                         *)
(* A handler is an async function: it runs without interruption up to its  *)
(* first await (the upstream fetch), and its continuation runs without     *)
(* interruption when the fetch settles.  Other handlers and the clock may  *)
(* move in between.                                                        *)
(***************************************************************************)
EXTENDS Integers, Sequences, FiniteSets, TLC

VARIABLES
  memoryCache,  \* route.ts:14  key -> [data, timestamp]; DOMAIN = Object.keys
  clock,        \* Date.now(), in milliseconds
  req,          \* per handler: position and locals (cacheKey, now, cached)
  last,         \* the request answered by the step just taken (NoAnswer if none)
  lastPut,      \* history: per key, the arguments of the assignment that ran last
  started,      \* history: number of requests received
  ticks,        \* history: number of clock advances
  scope,        \* the cached endpoints the clients of this run request
  kq,           \* key construction: a pair of bars requests
  kk,           \* key construction: the pair of keys built for kq
  snapshotData, \* dashboard: the `data` prop (SnapshotData) of the component
  tradingLogs,  \* dashboard: useState, set by the effect
  portfolioHistory,        \* dashboard: useState, set by the effect
  agentPerformanceHistory, \* dashboard: computed by a render
  stage,        \* dashboard: "mounted", "loaded", "rendered" or "tracked"
  generator,    \* synthetic bars: the inputs and locals of one generation
  sp500Data,    \* dashboard: useState, set by the effect
  nasdaq100Data,           \* dashboard: useState, set by the effect
  sortedLogs,   \* the logs positionTracker has annotated
  page,         \* dashboard/page.tsx: the component, its timer and its loads
  sync          \* api/sync-alpaca: the two tables and the handlers

\* the state of the dashboard
chart == <<snapshotData, tradingLogs, portfolioHistory, agentPerformanceHistory, stage,
           generator, sp500Data, nasdaq100Data, sortedLogs>>

vars == <<memoryCache, clock, req, last, lastPut, started, ticks, scope, kq, kk, chart,
          page, sync>>

----------------------------------------------------------------------------
(* Bounds of the model *)

MaxStarts == 3   \* requests received in one run
MaxTicks == 1    \* clock advances in one run
MaxScope == 2    \* cached endpoints requested in one run
MaxLen == 3      \* tokens in the parameters of a request (key construction)

\* handlers that can be between their lookup and their continuation at once
Handlers == {1, 2}

(* Program constants *)

CACHE_DURATION_MS == 7 * 24 * 60 * 60 * 1000
ALPACA_CACHE_DURATION_MS == 5 * 60 * 1000

(* The clock advances by amounts that put ages just below and exactly at   *)
(* each of the two durations (the longer ones are beyond the shorter).     *)
Deltas ==
  {ALPACA_CACHE_DURATION_MS - 1, ALPACA_CACHE_DURATION_MS,
   CACHE_DURATION_MS - 1, CACHE_DURATION_MS}

----------------------------------------------------------------------------
(* Values *)

Undefined == [undefined |-> TRUE]   \* memoryCache[k] for an absent k

(* A query parameter: searchParams.get gives null when it is absent.       *)
Absent == [present |-> FALSE, s |-> <<>>]
Param(str) == [present |-> TRUE, s |-> str]

AlpacaEndpoints == {"account", "positions", "portfolio-history", "orders"}
BarsEndpoints == {"spy-bars", "qqq-bars", "stock-bars"}

(* What the upstream call can do: the fetch rejects (or the credentials    *)
(* are missing), the status is not 2xx, the body is not JSON, the body is  *)
(* the JSON value null, the body is a JSON object without the expected     *)
(* fields, or the body is well formed (A or B).                            *)
Payloads == {"A", "B"}
Failures == {"throw", "non2xx", "unparseable"}
Bodies == {"null", "shapeless"} \cup Payloads
Outcomes == Failures \cup Bodies

----------------------------------------------------------------------------
(* Strings *)

\* !p of a string-or-null: null and the empty string are falsy
Falsy(p) == ~p.present \/ p.s = <<>>

\* str.split('T')[0]: what precedes the first "T", the whole string without one
SplitT0(str) ==
  LET at == {i \in 1..Len(str) : str[i] = "T"}
  IN IF at = {} THEN str
     ELSE SubSeq(str, 1, (CHOOSE i \in at : \A j \in at : i <= j) - 1)

\* str.includes(part)
Includes(str, part) ==
  \E i \in 0..(Len(str) - Len(part)) : SubSeq(str, i + 1, i + Len(part)) = part

----------------------------------------------------------------------------
(* Cache keys *)

AlpacaKey(endpoint) ==
  CASE endpoint = "account" -> <<"alpaca-account">>
    [] endpoint = "positions" -> <<"alpaca-positions">>
    [] endpoint = "portfolio-history" -> <<"alpaca-portfolio-history">>
    [] endpoint = "orders" -> <<"alpaca-orders">>

\* `spy-bars:${start.split('T')[0]}:${end.split('T')[0]}` and its two siblings
BarsKey(q) ==
  IF q.endpoint = "stock-bars"
  THEN <<"stock-bars", ":">> \o q.symbol.s \o <<":">> \o SplitT0(q.start.s)
         \o <<":">> \o SplitT0(q.end.s)
  ELSE <<q.endpoint, ":">> \o SplitT0(q.start.s) \o <<":">> \o SplitT0(q.end.s)

\* the 400 guard of the bars endpoints
MissingParams(q) ==
  IF q.endpoint = "stock-bars"
  THEN Falsy(q.symbol) \/ Falsy(q.start) \/ Falsy(q.end)
  ELSE Falsy(q.start) \/ Falsy(q.end)

CacheKey(q) == IF q.endpoint \in AlpacaEndpoints THEN AlpacaKey(q.endpoint) ELSE BarsKey(q)

\* a slip: one duration for every case of the switch
HandlerTTLOneWeek(endpoint) == CACHE_DURATION_MS

\* the duration each case of the switch compares the age with
HandlerTTL(endpoint) ==
  IF endpoint \in BarsEndpoints THEN CACHE_DURATION_MS ELSE ALPACA_CACHE_DURATION_MS

----------------------------------------------------------------------------
(* The cache *)

\* const cached = memoryCache[cacheKey]
CacheRead(cache, key) == IF key \in DOMAIN cache THEN cache[key] ELSE Undefined

\* a slip: an entry aged exactly the duration still counts as fresh
IsHitAtDuration(cached, now, ttl) == cached # Undefined /\ (now - cached.timestamp) <= ttl

\* cached && (now - cached.timestamp) < DURATION
IsHit(cached, now, ttl) == cached # Undefined /\ (now - cached.timestamp) < ttl

\* a slip: the entry keeps the newer of the two timestamps
CachePutKeepNewest(cache, key, data, now) ==
  [k \in DOMAIN cache \cup {key} |->
     IF k = key
     THEN [data |-> data,
           timestamp |-> IF key \in DOMAIN cache /\ cache[key].timestamp > now
                         THEN cache[key].timestamp ELSE now]
     ELSE cache[k]]

\* a slip: the sign of the timestamp is lost
CachePutNegated(cache, key, data, now) ==
  [k \in DOMAIN cache \cup {key} |->
     IF k = key THEN [data |-> data, timestamp |-> 0 - now] ELSE cache[k]]

\* a slip: the entry is stamped with the time of the assignment
CachePutStampedAtPut(cache, key, data, now) ==
  [k \in DOMAIN cache \cup {key} |->
     IF k = key THEN [data |-> data, timestamp |-> clock] ELSE cache[k]]

\* a slip: an existing entry is refreshed, its data kept
CachePutKeepData(cache, key, data, now) ==
  [k \in DOMAIN cache \cup {key} |->
     IF k = key
     THEN [data |-> IF key \in DOMAIN cache THEN cache[key].data ELSE data,
           timestamp |-> now]
     ELSE cache[k]]

\* a slip: entries older than the shorter duration are dropped on a put
CachePutEvicting(cache, key, data, now) ==
  [k \in {j \in DOMAIN cache : now - cache[j].timestamp < ALPACA_CACHE_DURATION_MS}
          \cup {key} |->
     IF k = key THEN [data |-> data, timestamp |-> now] ELSE cache[k]]

\* memoryCache[cacheKey] = { data: responseData, timestamp: now }
CachePut(cache, key, data, now) ==
  [k \in DOMAIN cache \cup {key} |->
     IF k = key THEN [data |-> data, timestamp |-> now] ELSE cache[k]]

\* the duration logCacheSummary picks from the key string
SummaryTTL(key) ==
  IF Includes(key, <<"stock-bars">>) \/ Includes(key, <<"spy-bars">>)
       \/ Includes(key, <<"qqq-bars">>)
  THEN CACHE_DURATION_MS ELSE ALPACA_CACHE_DURATION_MS

\* isExpired = ageMs > (... ? CACHE_DURATION_MS : ALPACA_CACHE_DURATION_MS)
IsExpired(ageMs, key) == ageMs > SummaryTTL(key)

\* logCacheSummary: one line per key of the cache, with its age and flag
LogCacheSummary(cache, now) ==
  [now |-> now,
   lines |-> [k \in DOMAIN cache |->
                [ageMs |-> now - cache[k].timestamp,
                 status |-> IF IsExpired(now - cache[k].timestamp, k)
                            THEN "EXPIRED" ELSE "VALID"]]]

----------------------------------------------------------------------------
(* Payloads and responses *)

NoId == "-"
Data(p) == [kind |-> "data", id |-> p]        \* built from a well-formed body
Malformed == [kind |-> "malformed", id |-> NoId] \* built from a shapeless body
NullData == [kind |-> "null", id |-> NoId]       \* the JSON value null
BarsNull == [kind |-> "bars-null", id |-> NoId]  \* { bars: null }
ErrorBody == [kind |-> "error", id |-> NoId]     \* { error: ... }
StatusBody == [kind |-> "cache-status", id |-> NoId]
NoData == [kind |-> "none", id |-> NoId]

Response(status, body, count) == [status |-> status, body |-> body, cacheCount |-> count]
NoResponse == Response(0, ErrorBody, -1)

(* The continuation of an Alpaca endpoint after `await alpacaRequest(...)`: *)
(* whether the assignment to memoryCache runs, with what data, and whether  *)
(* an exception reaches the outer catch.  alpacaRequest throws on missing   *)
(* credentials, a rejected fetch, a non-2xx status and an unparseable body. *)
(*   account:  account.portfolio_value throws on null; parseFloat of a      *)
(*             missing field is NaN, which is stored.                       *)
(*   positions: positions.map throws on null and on a non-array.            *)
(*   portfolio-history: history.equity throws on null, is undefined on a    *)
(*             shapeless body, which is stored.                             *)
(*   orders:   the body is stored as it is; orders.length in the log line   *)
(*             after the assignment throws on null.                         *)
AlpacaContinuation(endpoint, out) ==
  CASE out \in Failures -> [put |-> FALSE, data |-> NullData, throws |-> TRUE]
    [] out = "null" ->
         IF endpoint = "orders"
         THEN [put |-> TRUE, data |-> NullData, throws |-> TRUE]
         ELSE [put |-> FALSE, data |-> NullData, throws |-> TRUE]
    [] out = "shapeless" ->
         IF endpoint = "positions"
         THEN [put |-> FALSE, data |-> NullData, throws |-> TRUE]
         ELSE [put |-> TRUE, data |-> Malformed, throws |-> FALSE]
    [] out \in Payloads -> [put |-> TRUE, data |-> Data(out), throws |-> FALSE]

\* a slip: a failed bars fetch reaches the outer catch
BarsContinuationRethrows(out) ==
  IF out \in Payloads
  THEN [put |-> TRUE, data |-> Data(out), throws |-> FALSE]
  ELSE [put |-> FALSE, data |-> NullData, throws |-> TRUE]

(* The continuation of a bars endpoint: every failure and every body        *)
(* without a time series ends in { bars: null } with status 200, inside the *)
(* inner try; only a body with a time series is stored.                     *)
BarsContinuation(out) ==
  IF out \in Payloads
  THEN [put |-> TRUE, data |-> Data(out), throws |-> FALSE]
  ELSE [put |-> FALSE, data |-> NullData, throws |-> FALSE]

Continuation(endpoint, out) ==
  IF endpoint \in AlpacaEndpoints THEN AlpacaContinuation(endpoint, out)
  ELSE BarsContinuation(out)

\* the log line of a cache hit reads cached.data.length on the orders endpoint
HitThrows(endpoint, cached) == endpoint = "orders" /\ cached.data = NullData

----------------------------------------------------------------------------
(* Requests *)

D1 == <<"2024-10-06">>
D1T == <<"2024-10-06", "T", "13:30:00Z">>
D2 == <<"2024-10-13">>
AAPL == <<"AAPL">>

Query(endpoint, symbol, start, end) ==
  [endpoint |-> endpoint, symbol |-> symbol, start |-> start, end |-> end]

\* "bogus" stands for every value of endpoint the switch has no case for,
\* null included
Requests ==
  {Query(e, Absent, Absent, Absent) : e \in AlpacaEndpoints \cup {"cache-status", "bogus"}}
  \cup {Query("spy-bars", Absent, Param(D1), Param(D2)),
        Query("spy-bars", Absent, Param(D1T), Param(D2)),
        Query("spy-bars", Absent, Absent, Param(D2)),
        Query("qqq-bars", Absent, Param(D1), Param(D2)),
        Query("qqq-bars", Absent, Param(D1), Param(<<>>)),
        Query("stock-bars", Param(AAPL), Param(D1), Param(D2)),
        Query("stock-bars", Absent, Param(D1), Param(D2))}

\* every choice of MaxScope cached endpoints
Scopes == {S \in SUBSET (AlpacaEndpoints \cup BarsEndpoints) : Cardinality(S) = MaxScope}

NoKey == <<>>
NoQuery == Query("bogus", Absent, Absent, Absent)
NoSummary == [now |-> -1, lines |-> <<>>]

\* no page is open and no sync runs
NoPage ==
  /\ page = <<>>
  /\ sync = <<>>

\* no dashboard is mounted
NoChart ==
  /\ snapshotData = <<>>
  /\ tradingLogs = <<>>
  /\ portfolioHistory = <<>>
  /\ agentPerformanceHistory = <<>>
  /\ stage = "none"
  /\ generator = <<>>
  /\ sp500Data = <<>>
  /\ nasdaq100Data = <<>>
  /\ sortedLogs = <<>>

\* a handler's position and locals
Idle ==
  [pc |-> "idle", q |-> NoQuery, cacheKey |-> NoKey, now |-> -1, cached |-> Undefined]

(* An answered request: its locals, how its upstream call settled ("none"  *)
(* without a call), whether it assigned to memoryCache (and what the key    *)
(* held just before), the response, and the cache summary it printed (if    *)
(* it printed one).                                                         *)
Answered(me, out, wrote, before, resp, summary) ==
  [q |-> me.q, cacheKey |-> me.cacheKey, now |-> me.now, cached |-> me.cached,
   out |-> out, wrote |-> wrote, before |-> before, resp |-> resp,
   summary |-> summary]

NoAnswer == [q |-> NoQuery, cacheKey |-> NoKey, now |-> -1, cached |-> Undefined,
             out |-> "none", wrote |-> FALSE, before |-> Undefined,
             resp |-> NoResponse, summary |-> NoSummary]

(* What is remembered of the assignment that ran last on a key: the data    *)
(* and the clock reading it was given, whether its request was answered     *)
(* with the data, and the data it replaced.                                 *)
PutRecord(c, me) ==
  [data |-> c.data, now |-> me.now, ok |-> ~c.throws,
   prev |-> IF me.cacheKey \in DOMAIN lastPut THEN lastPut[me.cacheKey].data ELSE NoData]

----------------------------------------------------------------------------
(* The handler *)

\* a request arrives; which idle handler takes it makes no difference
Receive(r, q) ==
  /\ q.endpoint \in scope \cup {"cache-status", "bogus"}
  /\ req[r].pc = "idle"
  /\ \A r2 \in Handlers : r2 < r => req[r2].pc # "idle"
  /\ started < MaxStarts
  /\ started' = started + 1
  /\ UNCHANGED <<clock, ticks, scope, kq, kk, chart, page, sync>>

\* default: and the 400 guard of the bars endpoints
Reject(r, q) ==
  /\ \/ q.endpoint \notin AlpacaEndpoints \cup BarsEndpoints \cup {"cache-status"}
     \/ q.endpoint \in BarsEndpoints /\ MissingParams(q)
  /\ Receive(r, q)
  /\ last' = Answered([Idle EXCEPT !.q = q], "none", FALSE, Undefined,
                       Response(400, ErrorBody, -1), NoSummary)
  /\ UNCHANGED <<memoryCache, req, lastPut>>

\* case 'cache-status'
CacheStatus(r, q) ==
  /\ q.endpoint = "cache-status"
  /\ Receive(r, q)
  /\ last' = Answered([Idle EXCEPT !.q = q], "none", FALSE, Undefined,
                       Response(200, StatusBody, Cardinality(DOMAIN memoryCache)),
                       LogCacheSummary(memoryCache, clock))
  /\ UNCHANGED <<memoryCache, req, lastPut>>

\* a cached endpoint, from the key to the first await or the cached response
Lookup(r, q) ==
  /\ q.endpoint \in AlpacaEndpoints \cup BarsEndpoints
  /\ q.endpoint \in BarsEndpoints => ~MissingParams(q)
  /\ Receive(r, q)
  /\ LET cacheKey == CacheKey(q)
         now == clock
         cached == CacheRead(memoryCache, cacheKey)
         me == [Idle EXCEPT !.q = q, !.cacheKey = cacheKey, !.now = now, !.cached = cached]
     IN IF IsHit(cached, now, HandlerTTL(q.endpoint))
        THEN /\ last' = IF HitThrows(q.endpoint, cached)
                        THEN Answered(me, "none", FALSE, Undefined,
                                      Response(500, ErrorBody, -1),
                                      LogCacheSummary(memoryCache, clock))
                        ELSE Answered(me, "none", FALSE, Undefined,
                                      Response(200, cached.data, -1), NoSummary)
             /\ UNCHANGED req
        ELSE /\ req' = [req EXCEPT ![r] = [me EXCEPT !.pc = "fetching"]]
             /\ last' = NoAnswer
  /\ UNCHANGED <<memoryCache, lastPut>>

\* the continuation after the upstream call has settled with outcome `out`
FetchReturn(r, out) ==
  /\ req[r].pc = "fetching"
  /\ LET me == req[r]
         c == Continuation(me.q.endpoint, out)
         cache == IF c.put THEN CachePut(memoryCache, me.cacheKey, c.data, me.now)
                  ELSE memoryCache
         resp == IF c.throws THEN Response(500, ErrorBody, -1)
                 ELSE IF c.put THEN Response(200, c.data, -1)
                 ELSE Response(200, BarsNull, -1)
     IN /\ memoryCache' = cache
        /\ req' = [req EXCEPT ![r] = Idle]
        /\ last' = Answered(me, out, c.put, CacheRead(memoryCache, me.cacheKey), resp,
                            IF c.throws THEN LogCacheSummary(cache, clock) ELSE NoSummary)
        /\ lastPut' = IF c.put
                      THEN [k \in DOMAIN lastPut \cup {me.cacheKey} |->
                              IF k = me.cacheKey
                              THEN PutRecord(c, me) ELSE lastPut[k]]
                      ELSE lastPut
  /\ UNCHANGED <<clock, started, ticks, scope, kq, kk, chart, page, sync>>

(* Time passes.  The code reads only differences of clock readings, so the *)
(* clock starts to move with the first request.                            *)
Tick(d) ==
  /\ ticks < MaxTicks
  /\ started > 0
  /\ ticks' = ticks + 1
  /\ clock' = clock + d
  /\ last' = NoAnswer
  /\ UNCHANGED <<memoryCache, req, lastPut, started, scope, kq, kk, chart, page, sync>>

Init ==
  /\ memoryCache = <<>>
  /\ clock = 0
  /\ req = [r \in Handlers |-> Idle]
  /\ last = NoAnswer
  /\ lastPut = <<>>
  /\ started = 0
  /\ scope \in Scopes
  /\ ticks = 0
  /\ kq = <<>>
  /\ kk = <<>>
  /\ NoChart
  /\ NoPage

Next ==
  \/ \E r \in Handlers, q \in Requests : Reject(r, q)
  \/ \E r \in Handlers, q \in Requests : CacheStatus(r, q)
  \/ \E r \in Handlers, q \in Requests : Lookup(r, q)
  \/ \E r \in Handlers, out \in Outcomes : FetchReturn(r, out)
  \/ \E d \in Deltas : Tick(d)

Spec == Init /\ [][Next]_vars

----------------------------------------------------------------------------
(* What the properties below speak of *)

FiveMinutes == 5 * 60 * 1000
SevenDays == 7 * 24 * 60 * 60 * 1000

\* the time to live of an endpoint's entries, as documented
TTL(endpoint) ==
  IF endpoint \in {"account", "positions", "orders", "portfolio-history"}
  THEN FiveMinutes ELSE SevenDays

\* the step just taken answered a request to a cached endpoint
AnsweredLookup == last.cacheKey # NoKey
\* ... from the cache, without an upstream call
AnsweredHit == AnsweredLookup /\ last.out = "none"
\* ... after an upstream call
AnsweredFetch == AnsweredLookup /\ last.out # "none"

\* the entry a lookup found was younger than the endpoint's time to live
Fresh(cached, now, endpoint) ==
  cached # Undefined /\ now - cached.timestamp < TTL(endpoint)

Fetching(r) == req[r].pc = "fetching"

----------------------------------------------------------------------------
(* C1: a request to a cached endpoint is answered with the stored payload, *)
(* without an upstream call, if and only if the key has an entry and       *)
(* now - storedAt is strictly below the time to live of the key's class;   *)
(* in every other case (no entry, or age >= TTL) a live fetch is made.     *)
(* The orders endpoint breaks it: an entry whose data is the JSON value    *)
(* null (stored before the log line that threw) is fresh, no upstream call *)
(* is made, and the answer is a 500, not the stored payload.               *)
C1_HitIffFresh ==
  /\ AnsweredLookup =>
       /\ Fresh(last.cached, last.now, last.q.endpoint) <=> last.out = "none"
       /\ last.out = "none" => last.resp = Response(200, last.cached.data, -1)
  /\ \A r \in Handlers : Fetching(r) => ~Fresh(req[r].cached, req[r].now, req[r].q.endpoint)

(* The decision alone (hit or fetch) is as C1 says, at every boundary.     *)
LookupDecision ==
  /\ AnsweredLookup =>
       (Fresh(last.cached, last.now, last.q.endpoint) <=> last.out = "none")
  /\ \A r \in Handlers : Fetching(r) => ~Fresh(req[r].cached, req[r].now, req[r].q.endpoint)

----------------------------------------------------------------------------
----------------------------------------------------------------------------
(* C3: when the live fetch after a miss fails (upstream throws, answers    *)
(* non-2xx, or sends a malformed body), the response is a no-data or error *)
(* result, never the expired payload; and no response carries a cached     *)
(* payload aged the time to live or more.  The second half holds.  The     *)
(* first fails: account, portfolio-history and orders store and return     *)
(* what they build from a JSON body that lacks the expected fields.        *)
C3_FailedFetchNoData ==
  /\ AnsweredFetch /\ last.out \in Failures \cup {"null", "shapeless"} =>
       last.resp.body \in {ErrorBody, BarsNull}
  /\ AnsweredHit => Fresh(last.cached, last.now, last.q.endpoint)

(* No response carries an expired payload: a response taken from the cache *)
(* is fresh, and after a thrown, non-2xx or unparseable fetch the response *)
(* is an error or { bars: null }.                                          *)
NeverStale ==
  /\ AnsweredFetch /\ last.out \in Failures => last.resp.body \in {ErrorBody, BarsNull}
  /\ AnsweredHit => Fresh(last.cached, last.now, last.q.endpoint)

----------------------------------------------------------------------------
(* C4: when two requests for one key both miss and both fetch, the entry   *)
(* is, after every assignment, exactly what the assignment that ran last   *)
(* was given (payload and timestamp together): never parts of both.        *)
C4_LastPutWins ==
  /\ DOMAIN memoryCache = DOMAIN lastPut
  /\ \A k \in DOMAIN memoryCache :
       memoryCache[k] = [data |-> lastPut[k].data, timestamp |-> lastPut[k].now]

\* a request has just overwritten what another stored after its own lookup,
\* with another payload and another timestamp
C4_Witness ==
  /\ last.wrote /\ last.resp.status = 200
  /\ last.before # Undefined /\ last.before # last.cached
  /\ last.before.data # last.resp.body
  /\ last.before.timestamp # last.now

----------------------------------------------------------------------------
----------------------------------------------------------------------------
(* C6: after two successful puts on a key with different payloads, a hit   *)
(* on the key returns exactly the second payload.                          *)
C6_HitReturnsLastPut ==
  AnsweredHit /\ last.cacheKey \in DOMAIN lastPut /\ lastPut[last.cacheKey].ok =>
    last.resp = Response(200, lastPut[last.cacheKey].data, -1)

\* a hit on a key whose last put replaced another payload
C6_Witness ==
  /\ AnsweredHit /\ last.cacheKey \in DOMAIN lastPut
  /\ lastPut[last.cacheKey].ok
  /\ lastPut[last.cacheKey].prev \in {Data(p) : p \in Payloads}
  /\ lastPut[last.cacheKey].prev # lastPut[last.cacheKey].data

----------------------------------------------------------------------------
(* C8: the cache changes only by the put after a successful live fetch;    *)
(* hits, failed or no-data fetches, 400s and cache-status change nothing.  *)
(* The orders endpoint breaks it: on a null body the assignment runs and   *)
(* the log line after it throws, so a request answered 500 has changed     *)
(* the cache.                                                              *)
C8_OnlySuccessfulFetchWrites ==
  [][memoryCache' # memoryCache =>
       /\ last'.out # "none" /\ last'.resp.status = 200
       /\ \A k \in DOMAIN memoryCache :
            k # last'.cacheKey => k \in DOMAIN memoryCache' /\ memoryCache'[k] = memoryCache[k]]_vars

----------------------------------------------------------------------------
(* C9: a key that has an entry has one in every later state: no request    *)
(* removes an entry, and expired entries stay until overwritten.           *)
C9_KeysNeverShrink ==
  [][\A k \in DOMAIN memoryCache : k \in DOMAIN memoryCache']_vars

\* an entry older than either time to live is still stored beside a new one
C9_Witness ==
  \E k1, k2 \in DOMAIN memoryCache :
    /\ k1 # k2
    /\ clock - memoryCache[k1].timestamp >= SevenDays
    /\ memoryCache[k2].timestamp = clock

----------------------------------------------------------------------------
\* the cached endpoint whose handler builds key k
KeyEndpoint(k) ==
  CHOOSE e \in AlpacaEndpoints \cup BarsEndpoints :
    \E q \in Requests :
      /\ q.endpoint = e
      /\ e \in BarsEndpoints => ~MissingParams(q)
      /\ CacheKey(q) = k

(* C10: cache-status flags an entry VALID if and only if now - storedAt is *)
(* below the time to live of the key, that is, exactly when a lookup of    *)
(* the key at the same instant would hit.  It fails at an age of exactly   *)
(* the time to live: the listing tests age > duration for EXPIRED, the     *)
(* handlers test age < duration for a hit.                                 *)
C10_StatusMatchesLookup ==
  last.q.endpoint = "cache-status" =>
  \A k \in DOMAIN last.summary.lines :
    /\ last.summary.lines[k].status = "VALID"
         <=> last.summary.lines[k].ageMs < TTL(KeyEndpoint(k))
    /\ last.summary.lines[k].status = "VALID"
         <=> IsHit(memoryCache[k], last.summary.now, HandlerTTL(KeyEndpoint(k)))

----------------------------------------------------------------------------
(* Key construction on its own: two bars requests with parameters over a   *)
(* small alphabet, and the keys the handler builds for them.                *)

KeyAlphabet == {"A", ":", "T"}
StringsOf(m) == [1..m -> KeyAlphabet]
Lengths == 0..MaxLen

\* bars requests whose parameters have at most MaxLen tokens in all; spy-bars
\* and qqq-bars never read the symbol
KeyRequests ==
  UNION {{Query("stock-bars", Param(sy), Param(st), Param(en)) :
            sy \in StringsOf(n[1]), st \in StringsOf(n[2]), en \in StringsOf(n[3])} :
         n \in {m \in Lengths \X Lengths \X Lengths : m[1] + m[2] + m[3] <= MaxLen}}
  \cup
  UNION {{Query(e, Absent, Param(st), Param(en)) :
            e \in {"spy-bars", "qqq-bars"}, st \in StringsOf(n[1]), en \in StringsOf(n[2])} :
         n \in {m \in Lengths \X Lengths : m[1] + m[2] <= MaxLen}}

\* the handler up to the key: the 400 guard, then the template
BuildKey(q) ==
  /\ Len(kq) < 2
  /\ kq' = Append(kq, q)
  /\ kk' = Append(kk, IF MissingParams(q) THEN NoKey ELSE BarsKey(q))
  /\ UNCHANGED <<memoryCache, clock, req, last, lastPut, started, ticks, scope, chart, page, sync>>

InitKey ==
  /\ memoryCache = <<>>
  /\ clock = 0
  /\ req = [r \in Handlers |-> Idle]
  /\ last = NoAnswer
  /\ lastPut = <<>>
  /\ started = 0
  /\ ticks = 0
  /\ scope = {}
  /\ kq = <<>>
  /\ kk = <<>>
  /\ NoChart
  /\ NoPage

NextKey == \E q \in KeyRequests : BuildKey(q)

SpecKey == InitKey /\ [][NextKey]_vars

\* equal in endpoint, symbol, date part of start and date part of end
SameLogicalRequest(q1, q2) ==
  /\ q1.endpoint = q2.endpoint
  /\ q1.symbol = q2.symbol
  /\ SplitT0(q1.start.s) = SplitT0(q2.start.s)
  /\ SplitT0(q1.end.s) = SplitT0(q2.end.s)

(* C7: the key of a bars request is a function of (endpoint, symbol, date  *)
(* part of start, date part of end) only: requests equal in the four get   *)
(* equal keys, requests that differ in one never get the same key, for all *)
(* parameter strings the handler accepts.  It fails for parameters that    *)
(* hold the separator ":", which the template does not escape.             *)
C7_KeyIdentifiesRequest ==
  Len(kk) = 2 /\ kk[1] # NoKey /\ kk[2] # NoKey =>
    (kk[1] = kk[2] <=> SameLogicalRequest(kq[1], kq[2]))

----------------------------------------------------------------------------
(* The dashboard: src/src/components/StaticDashboard.tsx turns the orders  *)
(* of the snapshot into trading logs and the raw portfolio history into    *)
(* hourly checkpoints (one effect); the published reconstruction           *)
(* (src/unnamed/part_001, "Chart 2") replays the logs against the          *)
(* checkpoints at a render.                                                *)
(*                                                                         *)
(* Numbers.  A JavaScript number is an IEEE 754 double: a sum or product   *)
(* is rounded to the width of the significand, half to even.  The model    *)
(* keeps the rounding and scales the width down to MantissaBits.  A share  *)
(* count is an integer number of quanta (QuantaPerShare to the share);     *)
(* whole-share counts and their sums are exact, as they are in doubles,    *)
(* and a decimal fraction such as 0.1 is the nearest number of that width. *)

MantissaBits == 11
QuantaPerShare == 8192

Minute == 60 * 1000
Hour == 60 * 60 * 1000

RECURSIVE BitLength(_)
BitLength(n) == IF n = 0 THEN 0 ELSE 1 + BitLength(n \div 2)

RECURSIVE Pow2(_)
Pow2(n) == IF n = 0 THEN 1 ELSE 2 * Pow2(n - 1)

Abs(x) == IF x < 0 THEN -x ELSE x

\* the representable number nearest to x, ties to the even significand
RoundToNearestEven(x) ==
  LET a == Abs(x)
      len == BitLength(a)
  IN IF len <= MantissaBits THEN x
     ELSE LET q == Pow2(len - MantissaBits)
              m == a \div q
              r == a % q
              up == 2 * r > q \/ (2 * r = q /\ m % 2 = 1)
              v == (IF up THEN m + 1 ELSE m) * q
          IN IF x < 0 THEN -v ELSE v

\* a + b of two numbers
Plus(a, b) == RoundToNearestEven(a + b)

\* quantity * closestBar.c: a count in quanta times a price in dollars
Times(quantity, c) == RoundToNearestEven(quantity * c)

\* parseFloat(order.qty) of the quantities the orders below carry, in quanta
ParseFloat(str) ==
  CASE str = "5" -> 5 * QuantaPerShare
    [] str = "10" -> 10 * QuantaPerShare
    [] str = "0.1" -> 819
    [] str = "0.2" -> 1638
    [] str = "0.3" -> 2458

\* side.toUpperCase()
ToUpperCase(str) ==
  CASE str = "buy" -> "BUY"
    [] str = "sell" -> "SELL"
    [] OTHER -> str

\* array.slice(from, to)
Slice(array, from, to) ==
  SubSeq(array, from + 1, IF to < Len(array) THEN to ELSE Len(array))

----------------------------------------------------------------------------
(* The effect: orders to trading logs, raw history to hourly checkpoints   *)

SliceLimit == 50
MinEquity == 1000

\* an order of the snapshot; submitted_at is the instant its ISO string names,
\* in milliseconds (what new Date(...).getTime() gives)
Order(symbol, side, qty, submitted_at) ==
  [symbol |-> symbol, side |-> side, qty |-> qty, submitted_at |-> submitted_at]

\* the object the map callback builds from an order (the fields the charts read)
LogOf(order) ==
  [action |-> ToUpperCase(order.side), symbol |-> order.symbol,
   quantity |-> ParseFloat(order.qty), timestamp |-> order.submitted_at]

\* data.orders.slice(0, 50).map(...)
Logs(orders) ==
  LET kept == Slice(orders, 0, SliceLimit)
  IN [i \in 1..Len(kept) |-> LogOf(kept[i])]

\* sequence.filter(keep), for a sequence of items and the set of kept items
Filter(array, keep) == SelectSeq(array, LAMBDA item : item \in keep)

\* equity.map((value, index) => ({timestamp: timestamp[index] * 1000, value}))
\*       .filter(item => item.value > 1000)
FilteredHistory(history) ==
  LET items == [i \in 1..Len(history.equity) |->
                  [timestamp |-> history.timestamp[i] * 1000, value |-> history.equity[i]]]
  IN Filter(items, {it \in {items[i] : i \in 1..Len(items)} : it.value > MinEquity})

\* date.setMinutes(0); date.setSeconds(0); date.setMilliseconds(0); date.getTime()
\* (local time, in a zone a whole number of hours from UTC)
HourKey(timestamp) == timestamp - (timestamp % Hour)

\* new Date(timestamp).getMinutes()
GetMinutes(timestamp) == (timestamp \div Minute) % 60

\* hourlyData[hourKey] = item; the object is kept as its entries in insertion order
SetEntry(entries, key, item) ==
  IF \E i \in 1..Len(entries) : entries[i].key = key
  THEN [i \in 1..Len(entries) |->
          IF entries[i].key = key THEN [key |-> key, item |-> item] ELSE entries[i]]
  ELSE Append(entries, [key |-> key, item |-> item])

\* filteredHistory.forEach(item => { if (!hourlyData[hourKey] || minutes === 0) ... })
RECURSIVE HourlyData(_, _)
HourlyData(filteredHistory, hourlyData) ==
  IF filteredHistory = <<>> THEN hourlyData
  ELSE LET item == Head(filteredHistory)
           hourKey == HourKey(item.timestamp)
           absent == \A i \in 1..Len(hourlyData) : hourlyData[i].key # hourKey
       IN HourlyData(Tail(filteredHistory),
                     IF absent \/ GetMinutes(item.timestamp) = 0
                     THEN SetEntry(hourlyData, hourKey, item)
                     ELSE hourlyData)

\* Object.values(hourlyData)
ObjectValues(entries) == [i \in 1..Len(entries) |-> entries[i].item]

\* one step of a stable insertion sort by a.timestamp - b.timestamp
RECURSIVE InsertByTimestamp(_, _)
InsertByTimestamp(sorted, item) ==
  IF sorted = <<>> THEN <<item>>
  ELSE IF Head(sorted).timestamp - item.timestamp > 0
       THEN <<item>> \o sorted
       ELSE <<Head(sorted)>> \o InsertByTimestamp(Tail(sorted), item)

\* a slip: the values are taken in the order of Object.values, unsorted
Unsorted(array) == array

\* array.sort((a, b) => a.timestamp - b.timestamp)
RECURSIVE SortByTimestamp(_)
SortByTimestamp(array) ==
  IF array = <<>> THEN <<>>
  ELSE InsertByTimestamp(SortByTimestamp(SubSeq(array, 1, Len(array) - 1)),
                         array[Len(array)])

\* the map that ends the chain: date (of the truncated hour), timestamp, value, pnl
FormattedHistory(history) ==
  LET arr == SortByTimestamp(ObjectValues(HourlyData(FilteredHistory(history), <<>>)))
  IN [index \in 1..Len(arr) |->
        [date |-> HourKey(arr[index].timestamp),
         timestamp |-> arr[index].timestamp,
         value |-> arr[index].value,
         pnl |-> IF index > 1 THEN arr[index].value - arr[index - 1].value ELSE 0]]

----------------------------------------------------------------------------
(* The effect, continued: the benchmark comparison (SPY, and QQQ alike).   *)
(* A bar's t is the instant its ISO string names, in milliseconds.         *)

Null == [null |-> TRUE]   \* data.spyData of a snapshot without benchmark bars

\* a slip: every bar is a candidate, whatever its time
AllBarsForPoint(bars, itemTimestamp) == bars

\* spyBars.filter(bar => new Date(bar.t).getTime() <= itemTimestamp)
ValidBarsForPoint(bars, itemTimestamp) ==
  SelectSeq(bars, LAMBDA bar : bar.t <= itemTimestamp)

\* validSpyBars.reduce((prev, curr) => currDiff < prevDiff && currDiff >= 0 ? curr : prev)
RECURSIVE InitialBar(_, _, _)
InitialBar(bars, firstPortfolioTimestamp, prev) ==
  IF bars = <<>> THEN prev
  ELSE LET curr == Head(bars)
           prevDiff == firstPortfolioTimestamp - prev.t
           currDiff == firstPortfolioTimestamp - curr.t
       IN InitialBar(Tail(bars), firstPortfolioTimestamp,
                     IF currDiff < prevDiff /\ currDiff >= 0 THEN curr ELSE prev)

\* validBarsForPoint.reduce((prev, curr) => currTime > prevTime ? curr : prev)
RECURSIVE LatestBar(_, _)
LatestBar(bars, prev) ==
  IF bars = <<>> THEN prev
  ELSE LatestBar(Tail(bars), IF Head(bars).t > prev.t THEN Head(bars) ELSE prev)

\* closestSpyBar: the reduce over the bars up to the point, or spyBars[0]
ClosestBenchmarkBar(bars, itemTimestamp) ==
  LET validBarsForPoint == ValidBarsForPoint(bars, itemTimestamp)
  IN IF Len(validBarsForPoint) > 0
     THEN [bar |-> LatestBar(Tail(validBarsForPoint), Head(validBarsForPoint)),
           fallback |-> FALSE]
     ELSE [bar |-> bars[1], fallback |-> TRUE]

(* What setSp500Data (setNasdaq100Data) receives, given the state it       *)
(* replaces: the state is left alone without bars, without checkpoints     *)
(* and without a bar up to the first checkpoint.  An element keeps the     *)
(* bar its return is computed from and the initial price it is compared    *)
(* with, in place of the two percentages.                                  *)
ComparisonData(benchmark, formattedHistory, before) ==
  IF benchmark = Null \/ Len(formattedHistory) = 0 THEN before
  ELSE LET bars == benchmark.bars
           firstPortfolioTimestamp == formattedHistory[1].timestamp
           validBars == ValidBarsForPoint(bars, firstPortfolioTimestamp)
       IN IF Len(validBars) = 0 THEN before
          ELSE [i \in 1..Len(formattedHistory) |->
                  LET closest == ClosestBenchmarkBar(bars, formattedHistory[i].timestamp)
                  IN [date |-> formattedHistory[i].date,
                      closest |-> closest.bar,
                      fallback |-> closest.fallback,
                      initial |-> InitialBar(Tail(validBars), firstPortfolioTimestamp,
                                             Head(validBars)).c]]

----------------------------------------------------------------------------
(* The render: positions and position values at each checkpoint            *)

\* a slip: a fill on the checkpoint itself is left out
ForEachLogBefore(log, pointTime, positionsAtPoint) ==
  LET held == IF log.symbol \in DOMAIN positionsAtPoint
              THEN positionsAtPoint[log.symbol] ELSE 0
      counted == log.timestamp < pointTime /\ log.action \in {"BUY", "SELL"}
      after == IF log.action = "BUY" THEN Plus(held, log.quantity)
               ELSE Plus(held, -log.quantity)
  IN IF counted
     THEN (log.symbol :> after) @@ positionsAtPoint
     ELSE positionsAtPoint

\* the callback of tradingLogs.forEach: if (logTime <= pointTime) { ... }
ForEachLog(log, pointTime, positionsAtPoint) ==
  LET held == IF log.symbol \in DOMAIN positionsAtPoint
              THEN positionsAtPoint[log.symbol] ELSE 0
      counted == log.timestamp <= pointTime /\ log.action \in {"BUY", "SELL"}
      after == IF log.action = "BUY" THEN Plus(held, log.quantity)
               ELSE Plus(held, -log.quantity)
  IN IF counted
     THEN (log.symbol :> after) @@ positionsAtPoint
     ELSE positionsAtPoint

(* tradingLogs.forEach(log => ...): the logs are visited in list order,    *)
(* the first half of the list and then the second.  The test on `first`    *)
(* has TLC compute the counts of the first half before it visits the       *)
(* second, as the loop does, instead of nesting the evaluations.           *)
RECURSIVE PositionsAtPoint(_, _, _)
PositionsAtPoint(logs, pointTime, positionsAtPoint) ==
  IF logs = <<>> THEN positionsAtPoint
  ELSE IF Len(logs) = 1 THEN ForEachLog(logs[1], pointTime, positionsAtPoint)
  ELSE LET half == Len(logs) \div 2
           first == PositionsAtPoint(SubSeq(logs, 1, half), pointTime, positionsAtPoint)
       IN IF DOMAIN first = {}
          THEN PositionsAtPoint(SubSeq(logs, half + 1, Len(logs)), pointTime, <<>>)
          ELSE PositionsAtPoint(SubSeq(logs, half + 1, Len(logs)), pointTime, first)

\* stockBars.reduce((prev, curr) => currDiff < prevDiff ? curr : prev)
RECURSIVE ClosestBar(_, _, _)
ClosestBar(stockBars, pointTime, prev) ==
  IF stockBars = <<>> THEN prev
  ELSE LET curr == Head(stockBars)
       IN ClosestBar(Tail(stockBars), pointTime,
                     IF Abs(curr.t - pointTime) < Abs(prev.t - pointTime) THEN curr ELSE prev)

\* a slip: without the test quantity !== 0
PointResultChartsZero(point, logs, stockData) ==
  LET positionsAtPoint == PositionsAtPoint(logs, point.timestamp, <<>>)
      charted == {sy \in DOMAIN positionsAtPoint : sy \in DOMAIN stockData}
  IN [date |-> point.date, total |-> point.value,
      positions |-> positionsAtPoint,
      values |-> [sy \in charted |->
                    Abs(Times(positionsAtPoint[sy],
                              ClosestBar(Tail(stockData[sy]), point.timestamp,
                                         Head(stockData[sy])).c))]]

\* one element of agentPerformanceHistory; positions is positionsAtPoint, which
\* the code drops on return
PointResult(point, logs, stockData) ==
  LET positionsAtPoint == PositionsAtPoint(logs, point.timestamp, <<>>)
      charted == {sy \in DOMAIN positionsAtPoint :
                    positionsAtPoint[sy] # 0 /\ sy \in DOMAIN stockData}
  IN [date |-> point.date, total |-> point.value,
      positions |-> positionsAtPoint,
      values |-> [sy \in charted |->
                    Abs(Times(positionsAtPoint[sy],
                              ClosestBar(Tail(stockData[sy]), point.timestamp,
                                         Head(stockData[sy])).c))]]

(* Position tracking (part_001, "Challenge 1"): the logs are walked in     *)
(* time order and each is annotated with the position before and after.   *)

\* the callback of sortedLogs.forEach
TrackLog(log, positionTracker) ==
  LET positionBefore == IF log.symbol \in DOMAIN positionTracker
                        THEN positionTracker[log.symbol] ELSE 0
      positionAfter == IF log.action = "BUY" THEN Plus(positionBefore, log.quantity)
                       ELSE IF log.action = "SELL" THEN Plus(positionBefore, -log.quantity)
                       ELSE positionBefore
  IN [positionTracker |-> (log.symbol :> positionAfter) @@ positionTracker,
      log |-> [action |-> log.action, symbol |-> log.symbol, quantity |-> log.quantity,
               timestamp |-> log.timestamp,
               positionBefore |-> positionBefore, positionAfter |-> positionAfter]]

(* sortedLogs.forEach(log => ...): the first half of the list and then the *)
(* second, the tracker of the first half computed before the second is     *)
(* visited.                                                                *)
RECURSIVE PositionTracker(_, _)
PositionTracker(logs, positionTracker) ==
  IF logs = <<>> THEN [positionTracker |-> positionTracker, logs |-> <<>>]
  ELSE IF Len(logs) = 1
       THEN LET one == TrackLog(logs[1], positionTracker)
            IN [positionTracker |-> one.positionTracker, logs |-> <<one.log>>]
       ELSE LET half == Len(logs) \div 2
                first == PositionTracker(SubSeq(logs, 1, half), positionTracker)
                second == PositionTracker(SubSeq(logs, half + 1, Len(logs)),
                                          first.positionTracker)
            IN IF DOMAIN first.positionTracker = {}
               THEN [positionTracker |-> <<>>, logs |-> first.logs]
               ELSE [positionTracker |-> second.positionTracker,
                     logs |-> first.logs \o second.logs]

AgentPerformanceHistory(history, logs, stockData) ==
  [i \in 1..Len(history) |-> PointResult(history[i], logs, stockData)]

----------------------------------------------------------------------------
(* Snapshots handed to the dashboard *)

MaxOrders == 2    \* orders in a snapshot drawn freely
MaxSamples == 2   \* raw history samples in a snapshot drawn freely

SeqsUpTo(S, n) == UNION {[1..m -> S] : m \in 0..n}

Symbols == {"AAPL", "MSFT"}
OrderTimes == {0, 10 * Minute, Hour}
WholeOrders ==
  {Order(sy, sd, qty, at) : sy \in Symbols, sd \in {"buy", "sell"},
                            qty \in {"5", "10"}, at \in OrderTimes}

\* raw samples: a time in seconds and an equity
Samples == {0, 30, 600, 3600} \X {500, 2000, 3000}
FewSamples == {<<0, 2000>>, <<30, 3000>>, <<600, 2000>>, <<3600, 3000>>}

\* data.portfolioHistory: two parallel arrays
HistoryOf(samples) ==
  [equity |-> [i \in 1..Len(samples) |-> samples[i][2]],
   timestamp |-> [i \in 1..Len(samples) |-> samples[i][1]]]

\* price bars: AAPL and TSLA have them, MSFT has none
StockData ==
  [sy \in {"AAPL", "TSLA"} |->
     IF sy = "AAPL" THEN <<[t |-> 0, c |-> 100], [t |-> 4 * Hour, c |-> 110]>>
     ELSE <<[t |-> 0, c |-> 200]>>]

\* the newest n orders of a long order history (the API lists newest first):
\* TSLA bought and sold in turn, six hours in
Padding(n) ==
  [i \in 1..n |-> Order("TSLA", IF i % 2 = 1 THEN "buy" ELSE "sell", "10", 6 * Hour)]

HourlySamples(hours) == [i \in 1..Len(hours) |-> <<hours[i] * 3600, 2000>>]

\* AAPL bought at 0h and sold at 5h, with checkpoints around both; and order
\* histories of SliceLimit - 1, SliceLimit and SliceLimit + 1 orders whose
\* oldest order is a buy before the first checkpoint
Scenarios ==
  {<<<<Order("AAPL", "sell", "10", 5 * Hour), Order("AAPL", "buy", "10", 0)>>,
     HourlySamples(<<0, 1, 3, 5, 6>>)>>}
  \cup {<<Padding(n) \o <<Order(sy, "buy", "10", 0)>>, HourlySamples(<<1, 6>>)>> :
          n \in {SliceLimit - 2, SliceLimit - 1, SliceLimit}, sy \in Symbols}

WholeInputs ==
  (SeqsUpTo(WholeOrders, MaxOrders) \X SeqsUpTo(Samples, MaxSamples))
  \cup (SeqsUpTo(WholeOrders, 1) \X [1..(MaxSamples + 1) -> FewSamples])
  \cup Scenarios

\* orders for 0.1, 0.2 and 0.3 of a share at three instants, each bought or
\* sold, in every order of the list
FractionQuantities == <<"0.1", "0.2", "0.3">>
FractionTimes == <<0, 10 * Minute, Hour>>
FractionLists ==
  {[i \in 1..3 |->
      Order("AAPL", sides[p[i]], FractionQuantities[p[i]], FractionTimes[p[i]])] :
     p \in Permutations(1..3), sides \in [1..3 -> {"buy", "sell"}]}
FractionInputs ==
  FractionLists \X {HourlySamples(<<1>>), HourlySamples(<<1, 2>>)}

SnapshotOf(in) ==
  [orders |-> in[1], portfolioHistory |-> HistoryOf(in[2]), stockData |-> StockData,
   spyData |-> Null, qqqData |-> Null]

\* snapshots with benchmark bars: bars before, on, between and after the
\* checkpoints, in any order of the list
MaxBars == 3   \* bars of the SPY series drawn freely

BenchmarkBars == {[t |-> h * Hour, c |-> c] : h \in {0, 1, 2, 4}, c \in {400, 410}}
BenchmarkHistories ==
  {HourlySamples(<<1>>), HourlySamples(<<1, 3>>), HourlySamples(<<3, 1>>)}
QQQSeries == {Null, [bars |-> <<[t |-> 4 * Hour, c |-> 300], [t |-> 0, c |-> 310],
                               [t |-> 2 * Hour, c |-> 320]>>]}
BenchmarkInputs ==
  ({Null} \cup {[bars |-> b] : b \in SeqsUpTo(BenchmarkBars, MaxBars)})
    \X BenchmarkHistories \X QQQSeries

BenchmarkSnapshotOf(in) ==
  [orders |-> <<>>, portfolioHistory |-> HistoryOf(in[2]), stockData |-> StockData,
   spyData |-> in[1], qqqData |-> in[3]]

----------------------------------------------------------------------------
(* The dashboard component *)

\* useEffect(() => { ... setTradingLogs(logs); ... setPortfolioHistory(...) })
LoadData ==
  /\ stage = "mounted"
  /\ tradingLogs' = Logs(snapshotData.orders)
  /\ portfolioHistory' = FormattedHistory(snapshotData.portfolioHistory)
  /\ sp500Data' = ComparisonData(snapshotData.spyData,
                                 FormattedHistory(snapshotData.portfolioHistory), sp500Data)
  /\ nasdaq100Data' = ComparisonData(snapshotData.qqqData,
                                     FormattedHistory(snapshotData.portfolioHistory),
                                     nasdaq100Data)
  /\ stage' = "loaded"
  /\ UNCHANGED <<snapshotData, agentPerformanceHistory, generator, sortedLogs>>
  /\ UNCHANGED <<memoryCache, clock, req, last, lastPut, started, ticks, scope, kq, kk,
               page, sync>>

\* the render after the state is set
Render ==
  /\ stage = "loaded"
  /\ agentPerformanceHistory' =
       AgentPerformanceHistory(portfolioHistory, tradingLogs, snapshotData.stockData)
  /\ stage' = "rendered"
  /\ UNCHANGED <<snapshotData, tradingLogs, portfolioHistory, generator, sp500Data,
               nasdaq100Data, sortedLogs>>
  /\ UNCHANGED <<memoryCache, clock, req, last, lastPut, started, ticks, scope, kq, kk,
               page, sync>>

(* The position tracker runs on the trading logs in time order (the source *)
(* names its input sortedLogs and shows no more of it): the sort of the    *)
(* dashboard, by timestamp, fills of one instant in list order.            *)
TrackPositions ==
  /\ stage = "rendered"
  /\ sortedLogs' = PositionTracker(SortByTimestamp(tradingLogs), <<>>).logs
  /\ stage' = "tracked"
  /\ UNCHANGED <<snapshotData, tradingLogs, portfolioHistory, agentPerformanceHistory,
               generator, sp500Data, nasdaq100Data>>
  /\ UNCHANGED <<memoryCache, clock, req, last, lastPut, started, ticks, scope, kq, kk,
               page, sync>>

\* the component is mounted with snapshot d; the cache plays no part
Mounted(d) ==
  /\ memoryCache = <<>>
  /\ clock = 0
  /\ req = [r \in Handlers |-> Idle]
  /\ last = NoAnswer
  /\ lastPut = <<>>
  /\ started = 0
  /\ ticks = 0
  /\ scope = {}
  /\ kq = <<>>
  /\ kk = <<>>
  /\ snapshotData = d
  /\ tradingLogs = <<>>
  /\ portfolioHistory = <<>>
  /\ agentPerformanceHistory = <<>>
  /\ stage = "mounted"
  /\ generator = <<>>
  /\ sp500Data = <<>>
  /\ nasdaq100Data = <<>>
  /\ sortedLogs = <<>>
  /\ NoPage

InitDashboard == \E in \in WholeInputs : Mounted(SnapshotOf(in))

NextDashboard == LoadData \/ Render \/ TrackPositions

SpecDashboard == InitDashboard /\ [][NextDashboard]_vars

InitFraction == \E in \in FractionInputs : Mounted(SnapshotOf(in))

SpecFraction == InitFraction /\ [][NextDashboard]_vars

InitBenchmark == \E in \in BenchmarkInputs : Mounted(BenchmarkSnapshotOf(in))

SpecBenchmark == InitBenchmark /\ [][NextDashboard]_vars

----------------------------------------------------------------------------
(* What the properties of the dashboard speak of *)

Loaded == stage \in {"loaded", "rendered"}
Rendered == stage = "rendered"
Checkpoints == 1..Len(portfolioHistory)
AllSymbols == Symbols \cup {"TSLA"}

\* the share count of sy in one element of agentPerformanceHistory, in quanta
Held(result, sy) == IF sy \in DOMAIN result.positions THEN result.positions[sy] ELSE 0

\* the exact sum of the quantities of the logs of sy with the given action and a
\* timestamp of at most t
RECURSIVE SumOfFills(_, _, _, _)
SumOfFills(logs, sy, action, t) ==
  IF logs = <<>> THEN 0
  ELSE IF Len(logs) = 1
       THEN (IF logs[1].symbol = sy /\ logs[1].action = action /\ logs[1].timestamp <= t
             THEN logs[1].quantity ELSE 0)
       ELSE LET half == Len(logs) \div 2
            IN SumOfFills(SubSeq(logs, 1, half), sy, action, t)
               + SumOfFills(SubSeq(logs, half + 1, Len(logs)), sy, action, t)

\* the logs of sy, in the order of the list
LogsOf(logs, sy) ==
  Filter(logs, {l \in {logs[i] : i \in 1..Len(logs)} : l.symbol = sy})

----------------------------------------------------------------------------
(* C11: at every checkpoint c and for every symbol s, the reconstructed    *)
(* share count is the sum of the quantities of the BUY fills of s with a   *)
(* timestamp <= c.timestamp minus that of its SELL fills with a timestamp  *)
(* <= c.timestamp: a fill on the checkpoint counts, a later one does not.  *)
C11_CountIsSignedSum ==
  Rendered =>
    \A i \in Checkpoints, sy \in AllSymbols :
      Held(agentPerformanceHistory[i], sy)
        = SumOfFills(tradingLogs, sy, "BUY", portfolioHistory[i].timestamp)
          - SumOfFills(tradingLogs, sy, "SELL", portfolioHistory[i].timestamp)

\* a buy exactly on one checkpoint, counted there, and a smaller sell exactly
\* on a later checkpoint, counted only from that one on
C11_Witness ==
  /\ Rendered
  /\ \E i, i2 \in Checkpoints, j, k \in 1..Len(tradingLogs) :
       /\ i < i2
       /\ tradingLogs[j].symbol = tradingLogs[k].symbol
       /\ tradingLogs[j].action = "BUY"
       /\ tradingLogs[j].timestamp = portfolioHistory[i].timestamp
       /\ tradingLogs[k].action = "SELL"
       /\ tradingLogs[k].timestamp = portfolioHistory[i2].timestamp
       /\ Held(agentPerformanceHistory[i], tradingLogs[k].symbol) = tradingLogs[j].quantity
       /\ Held(agentPerformanceHistory[i2], tradingLogs[k].symbol)
            = tradingLogs[j].quantity - tradingLogs[k].quantity
       /\ Held(agentPerformanceHistory[i2], tradingLogs[k].symbol) > 0

----------------------------------------------------------------------------
\* the fills of sy are a BUY of q at t1 followed by a SELL of q at t2
BoughtThenSold(sy, q, t1, t2) ==
  /\ t1 < t2
  /\ \E p \in Permutations(1..2) :
       LET logs == LogsOf(tradingLogs, sy)
       IN /\ Len(logs) = 2
          /\ logs[p[1]] = [action |-> "BUY", symbol |-> sy, quantity |-> q, timestamp |-> t1]
          /\ logs[p[2]] = [action |-> "SELL", symbol |-> sy, quantity |-> q, timestamp |-> t2]

LogTimes == {tradingLogs[i].timestamp : i \in 1..Len(tradingLogs)}
LogQuantities == {tradingLogs[i].quantity : i \in 1..Len(tradingLogs)}

ValueAt(sy, quantity, at) ==
  LET bars == snapshotData.stockData[sy]
      closest == CHOOSE b \in {bars[n] : n \in 1..Len(bars)} :
                   \A n \in 1..Len(bars) : Abs(b.t - at) <= Abs(bars[n].t - at)
  IN (quantity * closest.c)

----------------------------------------------------------------------------
\* the logs of every order of the snapshot
AllFills == [i \in 1..Len(snapshotData.orders) |-> LogOf(snapshotData.orders[i])]

(* C13: every fill of the account's order history that is earlier than the *)
(* first checkpoint is counted in the first checkpoint and in every later  *)
(* one, whatever the length of the order history.  It fails from the 51st  *)
(* order on: the effect keeps the first 50 orders of the list (the newest, *)
(* as the API lists them) and the older fills are never replayed.          *)
C13_EarlierFillsCarried ==
  Rendered =>
    \A i \in Checkpoints, sy \in AllSymbols :
      Held(agentPerformanceHistory[i], sy)
        = SumOfFills(AllFills, sy, "BUY", portfolioHistory[i].timestamp)
          - SumOfFills(AllFills, sy, "SELL", portfolioHistory[i].timestamp)

----------------------------------------------------------------------------
(* C14: the reconstruction is a function of the set of fills and of the    *)
(* checkpoints: listing the fills in another order changes no checkpoint's *)
(* snapshot.  It fails for fractions of a share: the counts are summed in  *)
(* the order of the list, each sum rounded, and nothing sorts the list.    *)
C14_OrderOfFillsIrrelevant ==
  Rendered =>
    \A p \in Permutations(1..Len(tradingLogs)) :
      AgentPerformanceHistory(portfolioHistory,
                              [i \in 1..Len(tradingLogs) |-> tradingLogs[p[i]]],
                              snapshotData.stockData)
        = agentPerformanceHistory

----------------------------------------------------------------------------
(* C15: whatever the number and order of the raw samples, the checkpoints  *)
(* are strictly ascending by timestamp and no two of them fall in the same *)
(* clock hour.                                                             *)
C15_AscendingOnePerHour ==
  Loaded =>
    \A i, j \in Checkpoints :
      i < j => /\ portfolioHistory[i].timestamp < portfolioHistory[j].timestamp
               /\ HourKey(portfolioHistory[i].timestamp) < HourKey(portfolioHistory[j].timestamp)

\* three raw samples, the later hour first and two in one hour, give two checkpoints
C15_Witness ==
  /\ Loaded
  /\ Len(snapshotData.portfolioHistory.timestamp) = 3
  /\ snapshotData.portfolioHistory.timestamp[1] > snapshotData.portfolioHistory.timestamp[2]
  /\ HourKey(snapshotData.portfolioHistory.timestamp[2] * 1000)
       = HourKey(snapshotData.portfolioHistory.timestamp[3] * 1000)
  /\ Len(portfolioHistory) = 2

----------------------------------------------------------------------------
\* the raw samples that pass the filter, in the order of the input
RawKept == FilteredHistory(snapshotData.portfolioHistory)

(* C16: of several raw samples in one clock hour the checkpoint kept is    *)
(* the one exactly on the hour if there is one, and the first encountered  *)
(* otherwise.  It fails for samples within the first minute of the hour:   *)
(* the test is getMinutes() === 0, so a sample at hh:00:30 replaces the    *)
(* one kept so far, be it the sample exactly on the hour or the first.     *)
C16_TopOfHourElseFirst ==
  Loaded =>
    \A i \in Checkpoints :
      LET kept == portfolioHistory[i]
          inHour == {n \in 1..Len(RawKept) :
                       HourKey(RawKept[n].timestamp) = HourKey(kept.timestamp)}
          onHour == {n \in inHour : RawKept[n].timestamp = HourKey(kept.timestamp)}
          first == CHOOSE n \in inHour : \A m \in inHour : n <= m
      IN IF onHour # {}
         THEN kept.timestamp = HourKey(kept.timestamp)
         ELSE kept.timestamp = RawKept[first].timestamp /\ kept.value = RawKept[first].value

----------------------------------------------------------------------------
(* C20: a spy-bars, qqq-bars or stock-bars request with its parameters     *)
(* present whose upstream call throws, answers non-2xx or sends a body     *)
(* without a time series is answered 200 with bars = null, never with a    *)
(* 4xx or 5xx and never by an exception that leaves the handler.           *)
C20_BarsFailureIsNoData ==
  AnsweredFetch /\ last.q.endpoint \in BarsEndpoints /\ last.out \notin Payloads =>
    /\ last.resp = Response(200, BarsNull, -1)
    /\ ~last.wrote
    /\ last.summary = NoSummary

\* each kind of failure has just been answered on a bars endpoint
C20_Witness ==
  /\ AnsweredFetch /\ last.q.endpoint = "stock-bars"
  /\ last.out = "non2xx"
  /\ last.cached # Undefined

----------------------------------------------------------------------------
(* Synthetic bars for a symbol without price data, generated from the      *)
(* symbol's orders.  Prices are integers in units of 1e-7 dollar, and the  *)
(* inputs are multiples of 24 cents over spans of 1 to 4 hours, so that    *)
(* every product and quotient below is exact; the rounding error of the    *)
(* doubles (about 1e-13 dollar) is far below the cent to which each price  *)
(* is rounded.  Times are milliseconds; a bar's t stands for the instant   *)
(* its ISO string denotes.                                                 *)

\* 1 dollar
Dollar == 10000000

\* 1 cent
Cent == Dollar \div 100

\* parseFloat(o.filled_avg_price)
ParsePrice(str) ==
  CASE str = "120.00" -> 120 * Dollar
    [] str = "132.00" -> 132 * Dollar
    [] str = "0.24" -> 24 * Cent

\* o.side.toLowerCase()
ToLowerCase(str) ==
  CASE str \in {"buy", "BUY"} -> "buy"
    [] str \in {"sell", "SELL"} -> "sell"

\* Math.max
Max(a, b) == IF a >= b THEN a ELSE b

\* Math.sin(k * Math.PI / 6), in thousandths
Sin12 == <<0, 500, 866, 1000, 866, 500, 0, -500, -866, -1000, -866, -500>>

\* Math.sin(t * Math.PI * 4) with t = i / hours, in thousandths
SinOf(i, hours) == Sin12[(((24 * i) \div hours) % 12) + 1]

\* buyPrice + (priceChange * t) with t = i / hours
Trend(buyPrice, priceChange, i, hours) == buyPrice + (priceChange \div hours) * i

\* a slip: an amplitude of 30% of the buy price
OscillationTenfold(buyPrice, i, hours) == (buyPrice \div 100000) * 30 * SinOf(i, hours)

\* (buyPrice * 0.03) * Math.sin(t * Math.PI * 4)
Oscillation(buyPrice, i, hours) == (buyPrice \div 100000) * 3 * SinOf(i, hours)

\* (Math.random() - 0.5) * (buyPrice * 0.01), random in thousandths
Noise(buyPrice, random) == (random - 500) * (buyPrice \div 100000)

\* parseFloat(price.toFixed(2)): to the nearest cent
ToFixed2(price) ==
  IF price >= 0 THEN ((price + Cent \div 2) \div Cent) * Cent
  ELSE -(((-price + Cent \div 2) \div Cent) * Cent)

\* orders.filter(o => o.symbol === symbol && o.side.toLowerCase() === side)
OrdersOf(orders, symbol, side) ==
  Filter(orders, {o \in {orders[n] : n \in 1..Len(orders)} :
                    o.symbol = symbol /\ ToLowerCase(o.side) = side})

\* nothing generated: no BUY order of the symbol, or not run yet
NoBars == [buyPrice |-> 0, buyTime |-> 0, sellPrice |-> 0, sellTime |-> 0, hours |-> 0,
           trend |-> <<>>, bars |-> <<>>]

(* The locals of one generation.  random[i] is the value Math.random()     *)
(* returns in iteration i.                                                 *)
Bars(orders, symbol, now, random) ==
  LET buyOrders == OrdersOf(orders, symbol, "buy")
      sellOrders == OrdersOf(orders, symbol, "sell")
  IN IF Len(buyOrders) > 0
     THEN LET buyPrice == ParsePrice(buyOrders[1].filled_avg_price)
              buyTime == buyOrders[1].submitted_at
              sellPrice == IF Len(sellOrders) > 0
                           THEN ParsePrice(sellOrders[1].filled_avg_price)
                           ELSE (buyPrice \div 100) * 105
              sellTime == IF Len(sellOrders) > 0 THEN sellOrders[1].submitted_at ELSE now
              hours == Max(1, (sellTime - buyTime) \div Hour)
              priceChange == sellPrice - buyPrice
              trend == [n \in 1..(hours + 1) |-> Trend(buyPrice, priceChange, n - 1, hours)]
          IN [buyPrice |-> buyPrice, buyTime |-> buyTime,
              sellPrice |-> sellPrice, sellTime |-> sellTime, hours |-> hours,
              trend |-> trend,
              bars |-> [n \in 1..(hours + 1) |->
                          [t |-> buyTime + (n - 1) * Hour,
                           c |-> ToFixed2(trend[n] + Oscillation(buyPrice, n - 1, hours)
                                          + Noise(buyPrice, random[n - 1]))]]]
     ELSE NoBars

\* the most orders of an order list
MaxFills == 2

\* the symbol without price data, and another one
CLSK == "CLSK"

\* submitted_at of the orders
FillTimes == {0, 30 * Minute, Hour, 3 * Hour}

\* Date.now(): after every order
Nows == {3 * Hour + 30 * Minute, 4 * Hour}

\* the longest series: hours
MaxHours == 4

\* Math.random(), in thousandths: the ends of [0, 1)
Randoms == {0, 999}

\* filled orders of the symbol, and two of another symbol
FilledOrders ==
  {[symbol |-> CLSK, side |-> sd, filled_avg_price |-> pr, submitted_at |-> at] :
     sd \in {"buy", "sell"}, pr \in {"120.00", "132.00", "0.24"}, at \in FillTimes}
  \cup {[symbol |-> "AAPL", side |-> "buy", filled_avg_price |-> "120.00", submitted_at |-> 0],
        [symbol |-> "AAPL", side |-> "sell", filled_avg_price |-> "132.00",
         submitted_at |-> Hour]}

\* order lists, in whatever order the API lists them
OrderLists == SeqsUpTo(FilledOrders, MaxFills)

\* the generation for one symbol
Generate ==
  /\ stage = "orders"
  /\ \E random \in [0..MaxHours -> Randoms] :
       generator' = [generator EXCEPT
                       !.out = Bars(generator.orders, generator.symbol, generator.now, random)]
  /\ stage' = "generated"
  /\ UNCHANGED <<snapshotData, tradingLogs, portfolioHistory, agentPerformanceHistory,
               sp500Data, nasdaq100Data, sortedLogs>>
  /\ UNCHANGED <<memoryCache, clock, req, last, lastPut, started, ticks, scope, kq, kk,
               page, sync>>

InitSynth ==
  /\ memoryCache = <<>>
  /\ clock = 0
  /\ req = [r \in Handlers |-> Idle]
  /\ last = NoAnswer
  /\ lastPut = <<>>
  /\ started = 0
  /\ scope = "all"
  /\ ticks = 0
  /\ kq = <<>>
  /\ kk = <<>>
  /\ snapshotData = <<>>
  /\ tradingLogs = <<>>
  /\ portfolioHistory = <<>>
  /\ agentPerformanceHistory = <<>>
  /\ stage = "orders"
  /\ sp500Data = <<>>
  /\ nasdaq100Data = <<>>
  /\ sortedLogs = <<>>
  /\ NoPage
  /\ \E orders \in OrderLists, now \in Nows :
       generator = [orders |-> orders, symbol |-> CLSK, now |-> now, out |-> NoBars]

NextSynth == Generate

SpecSynth == InitSynth /\ [][NextSynth]_vars

----------------------------------------------------------------------------
\* the generation has run
Generated == stage = "generated"

\* the symbol's orders of one side, as a set of positions in the list
FillsOf(side) ==
  {n \in 1..Len(generator.orders) :
     generator.orders[n].symbol = generator.symbol
     /\ ToLowerCase(generator.orders[n].side) = side}

\* the symbol has one BUY fill and no SELL fill
OnlyABuy == Cardinality(FillsOf("buy")) = 1 /\ FillsOf("sell") = {}

\* the price of the only BUY fill
OnlyBuyPrice ==
  ParsePrice(generator.orders[CHOOSE n \in FillsOf("buy") : TRUE].filled_avg_price)

\* the line from P at the first point to 1.05 P at the last, at point k of n
TrendLine(P, k, n) == P + (((P \div 100) * 5) \div (n - 1)) * (k - 1)

(* C17: for a symbol with only a BUY fill at price P, the last generated   *)
(* price is exactly 1.05 P and every price is within 0.03 P + 0.01 P of    *)
(* the trend line from P to 1.05 P.  It fails at the last point, which     *)
(* carries random noise like every other, and for prices of cents, where   *)
(* the rounding to cents exceeds the band.                                 *)
C17_TerminalExactAndBand ==
  Generated /\ OnlyABuy =>
    LET P == OnlyBuyPrice
        bars == generator.out.bars
        n == Len(bars)
    IN /\ bars[n].c = (P \div 100) * 105
       /\ \A k \in 1..n : Abs(bars[k].c - TrendLine(P, k, n)) <= 4 * (P \div 100)

(* C17, amended: for a symbol with only a BUY fill at price P, the last    *)
(* generated price is within 0.01 P plus half a cent of 1.05 P, and every  *)
(* price is within 0.03 P + 0.01 P plus half a cent of the trend line      *)
(* from P to 1.05 P.                                                       *)
C17_TerminalAndBandToTheCent ==
  Generated /\ OnlyABuy =>
    LET P == OnlyBuyPrice
        bars == generator.out.bars
        n == Len(bars)
    IN /\ Abs(bars[n].c - (P \div 100) * 105) <= (P \div 100) + Cent \div 2
       /\ \A k \in 1..n :
            Abs(bars[k].c - TrendLine(P, k, n)) <= 4 * (P \div 100) + Cent \div 2

\* a lone BUY at 120 dollars three hours before now: the series ends off 126 dollars
C17_Witness ==
  /\ Generated /\ OnlyABuy
  /\ OnlyBuyPrice = 120 * Dollar
  /\ generator.out.hours = 3
  /\ generator.out.bars[4].c # 126 * Dollar
  /\ generator.out.bars[2].c # generator.out.trend[2]

----------------------------------------------------------------------------
(* C18: the generator anchors on the chronologically first BUY fill of the *)
(* symbol and, when the symbol has a SELL fill later than that BUY, on     *)
(* such a SELL fill, whatever the order of the list; without a SELL fill   *)
(* it takes 1.05 times the buy price at the current time.  It fails: the   *)
(* anchors are the first BUY and the first SELL of the list as supplied.   *)
C18_AnchorsChronological ==
  Generated /\ FillsOf("buy") # {} =>
    LET out == generator.out
        orders == generator.orders
        first == CHOOSE b \in FillsOf("buy") :
                   \A b2 \in FillsOf("buy") :
                     orders[b].submitted_at <= orders[b2].submitted_at
        later == {sl \in FillsOf("sell") :
                    orders[sl].submitted_at > orders[first].submitted_at}
    IN /\ out.buyTime = orders[first].submitted_at
       /\ \E b \in FillsOf("buy") :
            /\ orders[b].submitted_at = out.buyTime
            /\ ParsePrice(orders[b].filled_avg_price) = out.buyPrice
       /\ later # {} =>
            \E sl \in later :
              /\ out.sellTime = orders[sl].submitted_at
              /\ out.sellPrice = ParsePrice(orders[sl].filled_avg_price)
       /\ FillsOf("sell") = {} =>
            out.sellPrice = (out.buyPrice \div 100) * 105 /\ out.sellTime = generator.now

----------------------------------------------------------------------------
(* C19: the series starts at the buy time, its points are one hour apart,  *)
(* and it ends at the sell time (or now): no point is later than the sell  *)
(* time, and the trend reaches the terminal price at the last point.  It   *)
(* fails when the sell time (or now) is less than an hour after the buy    *)
(* time: the loop runs to max(1, floor(span in hours)) and pushes a point  *)
(* one hour after the buy time, past the sell time.                        *)
C19_BuyTimeToSellTimeHourly ==
  Generated /\ generator.out.bars # <<>> =>
    LET out == generator.out
        n == Len(out.bars)
    IN /\ out.bars[1].t = out.buyTime
       /\ \A k \in 1..(n - 1) : out.bars[k + 1].t = out.bars[k].t + Hour
       /\ \A k \in 1..n : out.bars[k].t <= out.sellTime
       /\ out.trend[n] = out.sellPrice

----------------------------------------------------------------------------
(* C27: in every interleaving, a payload served from the cache was asked   *)
(* of upstream less than the time to live of its key before it is served   *)
(* (5 minutes for the Alpaca endpoints, 7 days for bars), however long the *)
(* fetch took.  The request that stored it read the clock at its lookup,   *)
(* in the same step as it issued the fetch, and lastPut keeps that time.   *)
C27_ServedWithinTTLOfRequest ==
  AnsweredHit /\ last.resp.status = 200 =>
    /\ last.cacheKey \in DOMAIN lastPut
    /\ last.resp.body = lastPut[last.cacheKey].data
    /\ clock - lastPut[last.cacheKey].now < TTL(last.q.endpoint)

\* a payload is served one millisecond before its request is as old as the
\* time to live
C27_Witness ==
  /\ AnsweredHit /\ last.resp.status = 200
  /\ ticks > 0
  /\ lastPut[last.cacheKey].now = 0
  /\ clock - lastPut[last.cacheKey].now = TTL(last.q.endpoint) - 1

----------------------------------------------------------------------------
----------------------------------------------------------------------------
(* The reconstruction as specified: the fills sorted ascending by time,    *)
(* one pass over them with a cursor, the counts carried from checkpoint to *)
(* checkpoint.                                                             *)

\* the cursor passes a fill whose time is at most the checkpoint's
CursorTakes(fill, pointTime) == fill.timestamp <= pointTime

\* the running count after a fill
Accumulate(fill, counts) ==
  LET held == IF fill.symbol \in DOMAIN counts THEN counts[fill.symbol] ELSE 0
  IN CASE fill.action = "BUY" -> (fill.symbol :> Plus(held, fill.quantity)) @@ counts
       [] fill.action = "SELL" -> (fill.symbol :> Plus(held, -fill.quantity)) @@ counts
       [] OTHER -> counts

\* the cursor advanced to the first fill after the checkpoint
RECURSIVE Advance(_, _, _, _)
Advance(fills, cursor, pointTime, counts) ==
  IF cursor <= Len(fills) /\ CursorTakes(fills[cursor], pointTime)
  THEN Advance(fills, cursor + 1, pointTime, Accumulate(fills[cursor], counts))
  ELSE [cursor |-> cursor, counts |-> counts]

\* the counts at each checkpoint, in the order of the checkpoints
RECURSIVE CursorReplay(_, _, _, _)
CursorReplay(fills, checkpoints, cursor, counts) ==
  IF checkpoints = <<>> THEN <<>>
  ELSE LET at == Advance(fills, cursor, Head(checkpoints).timestamp, counts)
       IN <<at.counts>> \o CursorReplay(fills, Tail(checkpoints), at.cursor, at.counts)

CountOf(counts, sy) == IF sy \in DOMAIN counts THEN counts[sy] ELSE 0

TimeSorted(logs) ==
  \A i, j \in 1..Len(logs) : i < j => logs[i].timestamp <= logs[j].timestamp

(* C24: for every list of fills and every ascending list of checkpoints,   *)
(* the replay with one cursor over the time-sorted fills gives at every    *)
(* checkpoint and for every symbol the count the published code gives by   *)
(* starting from zero at each checkpoint, fills of one instant and fills   *)
(* on a checkpoint included.  It fails for fractions of a share listed out *)
(* of time order: the published code adds them in list order.              *)
C24_CursorReplayAgrees ==
  Rendered =>
    LET replay == CursorReplay(SortByTimestamp(tradingLogs), portfolioHistory, 1, <<>>)
    IN \A i \in Checkpoints, sy \in AllSymbols :
         CountOf(replay[i], sy) = Held(agentPerformanceHistory[i], sy)

\* the two agree whenever the list is in time order
CursorAgreesOnTimeSortedLists ==
  Rendered /\ TimeSorted(tradingLogs) =>
    LET replay == CursorReplay(SortByTimestamp(tradingLogs), portfolioHistory, 1, <<>>)
    IN \A i \in Checkpoints, sy \in AllSymbols :
         CountOf(replay[i], sy) = Held(agentPerformanceHistory[i], sy)

----------------------------------------------------------------------------
Tracked == stage = "tracked"

\* the index in sortedLogs of the last log of sy before index i, 0 without one
PreviousOf(i) ==
  LET earlier == {j \in 1..(i - 1) : sortedLogs[j].symbol = sortedLogs[i].symbol}
  IN IF earlier = {} THEN 0 ELSE CHOOSE j \in earlier : \A k \in earlier : k <= j

\* the index in sortedLogs of the last log of sy with a time of at most t
LastAt(sy, t) ==
  LET upTo == {j \in 1..Len(sortedLogs) :
                 sortedLogs[j].symbol = sy /\ sortedLogs[j].timestamp <= t}
  IN IF upTo = {} THEN 0 ELSE CHOOSE j \in upTo : \A k \in upTo : k <= j

\* positionBefore and positionAfter chain along the logs of a symbol
TrackerChains ==
  \A i \in 1..Len(sortedLogs) :
    LET log == sortedLogs[i]
    IN /\ log.positionBefore
            = (IF PreviousOf(i) = 0 THEN 0 ELSE sortedLogs[PreviousOf(i)].positionAfter)
       /\ log.action = "BUY" => log.positionAfter = Plus(log.positionBefore, log.quantity)
       /\ log.action = "SELL" => log.positionAfter = Plus(log.positionBefore, -log.quantity)

\* the tracker and the reconstruction agree at every checkpoint
TrackerMeetsReconstruction ==
  \A c \in Checkpoints, sy \in AllSymbols :
    LastAt(sy, portfolioHistory[c].timestamp) # 0 =>
      sortedLogs[LastAt(sy, portfolioHistory[c].timestamp)].positionAfter
        = Held(agentPerformanceHistory[c], sy)

(* C26: when the position tracker has walked the time-sorted logs, each    *)
(* log's positionBefore is the positionAfter of the previous log of its    *)
(* symbol (0 for the first), its positionAfter is positionBefore plus the  *)
(* quantity of a BUY or minus that of a SELL, and at every checkpoint the  *)
(* positionAfter of the last log of a symbol up to the checkpoint is the   *)
(* count of the reconstruction.  The last part fails for fractions of a    *)
(* share listed out of time order.                                         *)
C26_TrackerConsistent ==
  Tracked => TrackerChains /\ TrackerMeetsReconstruction

\* the chain holds in every case
TrackerChainHolds == Tracked => TrackerChains

\* the tracker meets the reconstruction whenever the list is in time order
TrackerMeetsOnTimeSortedLists ==
  Tracked /\ TimeSorted(tradingLogs) => TrackerMeetsReconstruction

----------------------------------------------------------------------------
\* the bars of a benchmark of the snapshot
BarsOf(benchmark) == IF benchmark = Null THEN <<>> ELSE benchmark.bars

\* every element of a comparison uses the latest bar up to its checkpoint
UsesLatestBar(comparison, benchmark) ==
  \A i \in 1..Len(comparison) :
    LET bars == BarsOf(benchmark)
        pointTime == portfolioHistory[i].timestamp
        closest == comparison[i].closest
    IN /\ ~comparison[i].fallback
       /\ \E k \in 1..Len(bars) : bars[k] = closest
       /\ closest.t <= pointTime
       /\ \A k \in 1..Len(bars) : bars[k].t <= pointTime => bars[k].t <= closest.t

(* C30: in the SPY and the QQQ comparison, the price of every checkpoint   *)
(* is that of the latest bar at or before the checkpoint, never of a later *)
(* bar, and the fallback to the first bar of the series is never taken.    *)
C30_LatestBarAtOrBefore ==
  Loaded =>
    /\ UsesLatestBar(sp500Data, snapshotData.spyData)
    /\ UsesLatestBar(nasdaq100Data, snapshotData.qqqData)

\* two checkpoints priced from different bars of a series listed out of time
\* order that also holds a bar later than both
C30_Witness ==
  /\ Loaded
  /\ Len(sp500Data) = 2
  /\ sp500Data[1].closest.t < sp500Data[2].closest.t
  /\ \E k \in 1..Len(snapshotData.spyData.bars) :
       snapshotData.spyData.bars[k].t > portfolioHistory[2].timestamp
  /\ ~TimeSorted([k \in 1..Len(snapshotData.spyData.bars) |->
                    [timestamp |-> snapshotData.spyData.bars[k].t]])

----------------------------------------------------------------------------
(* The sync route: src/src/app/api/sync-alpaca/route.ts replaces the rows  *)
(* of two tables by what it fetches from Alpaca.  A handler runs from      *)
(* await to await; an action is the continuation after one await, with the *)
(* outcome of the awaited call as its input.  A delete or an insert takes  *)
(* effect in the table in the step its await settles.                      *)

MaxSyncs == 2   \* sync requests received in one run

SyncHandlers == {1, 2}

\* what /v2/positions and /v2/orders can return
FetchedPositions ==
  {<<>>, <<[symbol |-> "AAPL", qty |-> "10"]>>,
   <<[symbol |-> "AAPL", qty |-> "10"], [symbol |-> "MSFT", qty |-> "5"]>>}
FetchedOrders ==
  {<<>>, <<[symbol |-> "AAPL", side |-> "buy", qty |-> "10", submitted_at |-> 0]>>,
   <<[symbol |-> "MSFT", side |-> "sell", qty |-> "5", submitted_at |-> Hour],
     [symbol |-> "AAPL", side |-> "buy", qty |-> "10", submitted_at |-> 0]>>}

\* rows a table holds before the first sync
SeedRow == [symbol |-> "SEED", quantity |-> 0]
SeedLog == [symbol |-> "SEED", action |-> "BUY", quantity |-> 0, timestamp |-> 0]

\* positions.map(pos => ({ ..., symbol, quantity: parseFloat(pos.qty), ... }))
PositionsToInsert(positions) ==
  [i \in 1..Len(positions) |->
     [symbol |-> positions[i].symbol, quantity |-> ParseFloat(positions[i].qty)]]

\* orders.map(order => ({ ..., action, symbol, quantity, timestamp, ... }))
LogsToInsert(orders) ==
  [i \in 1..Len(orders) |->
     [symbol |-> orders[i].symbol, action |-> ToUpperCase(orders[i].side),
      quantity |-> ParseFloat(orders[i].qty), timestamp |-> orders[i].submitted_at]]

\* .delete().neq('id', '00000000-0000-0000-0000-000000000000')
DeleteAllRows(table) == <<>>

\* .insert(rows)
InsertRows(table, rows) == table \o rows

NoSyncResponse == [status |-> 0, success |-> FALSE]
SyncSuccess == [status |-> 200, success |-> TRUE]
SyncFailed == [status |-> 500, success |-> FALSE]

\* a handler that has not been called, or has returned
SyncIdle ==
  [pc |-> "idle", positions |-> <<>>, orders |-> <<>>, resp |-> NoSyncResponse,
   positionsBefore |-> <<>>, logsBefore |-> <<>>]

\* the handler at position pc, no handler having just returned
SyncAt(h, pc) == sync.run[h].pc = pc

\* handler h moves on with locals `locals`; `answered` is the handler that
\* returns in this step, 0 for none
SyncStep(h, locals, answered, positionsTable, logsTable) ==
  sync' = [sync EXCEPT !.run[h] = locals, !.answered = answered,
                       !.portfolio_positions = positionsTable,
                       !.trading_logs = logsTable]

SyncRest ==
  UNCHANGED <<memoryCache, clock, req, last, lastPut, started, ticks, scope, kq, kk, chart,
              page>>

\* the outer catch: status 500
SyncCatch(h, positionsTable, logsTable) ==
  SyncStep(h, [sync.run[h] EXCEPT !.pc = "idle", !.resp = SyncFailed], h,
           positionsTable, logsTable)

\* POST(): alpacaRequest('/v2/positions') is issued; positionsBefore and
\* logsBefore keep the tables as the request found them (history)
SyncPost(h) ==
  /\ SyncAt(h, "idle")
  /\ sync.syncs < MaxSyncs
  /\ sync' = [sync EXCEPT !.run[h] = [SyncIdle EXCEPT
                                        !.pc = "positions",
                                        !.positionsBefore = sync.portfolio_positions,
                                        !.logsBefore = sync.trading_logs],
                          !.answered = 0, !.syncs = @ + 1]
  /\ SyncRest

\* 1. the positions arrive, or alpacaRequest throws; 2. the delete is issued
SyncPositionsFetched(h) ==
  /\ SyncAt(h, "positions")
  /\ \/ \E positions \in FetchedPositions :
          SyncStep(h, [sync.run[h] EXCEPT !.pc = "deletePositions",
                                         !.positions = positions], 0,
                   sync.portfolio_positions, sync.trading_logs)
     \/ SyncCatch(h, sync.portfolio_positions, sync.trading_logs)
  /\ SyncRest

\* 2. the delete settles, with or without an error (an error is logged);
\* 3. the insert is issued if there are positions, else 4. the orders fetch
SyncPositionsDeleted(h) ==
  /\ SyncAt(h, "deletePositions")
  /\ \E deletePositionsError \in BOOLEAN :
       SyncStep(h, [sync.run[h] EXCEPT
                      !.pc = IF Len(sync.run[h].positions) > 0
                             THEN "insertPositions" ELSE "orders"], 0,
                IF deletePositionsError THEN sync.portfolio_positions
                ELSE DeleteAllRows(sync.portfolio_positions),
                sync.trading_logs)
  /\ SyncRest

\* 3. the insert settles: an error is thrown; 4. the orders fetch is issued
SyncPositionsInserted(h) ==
  /\ SyncAt(h, "insertPositions")
  /\ \/ SyncStep(h, [sync.run[h] EXCEPT !.pc = "orders"], 0,
                  InsertRows(sync.portfolio_positions,
                             PositionsToInsert(sync.run[h].positions)),
                  sync.trading_logs)
     \/ SyncCatch(h, sync.portfolio_positions, sync.trading_logs)
  /\ SyncRest

\* 4. the orders arrive, or alpacaRequest throws; 5. the delete is issued
SyncOrdersFetched(h) ==
  /\ SyncAt(h, "orders")
  /\ \/ \E orders \in FetchedOrders :
          SyncStep(h, [sync.run[h] EXCEPT !.pc = "deleteLogs", !.orders = orders], 0,
                   sync.portfolio_positions, sync.trading_logs)
     \/ SyncCatch(h, sync.portfolio_positions, sync.trading_logs)
  /\ SyncRest

\* 5. the delete settles, with or without an error (an error is logged);
\* 6. the insert is issued if there are orders, else 7. the account fetch
SyncLogsDeleted(h) ==
  /\ SyncAt(h, "deleteLogs")
  /\ \E deleteLogsError \in BOOLEAN :
       SyncStep(h, [sync.run[h] EXCEPT
                      !.pc = IF Len(sync.run[h].orders) > 0
                             THEN "insertLogs" ELSE "account"], 0,
                sync.portfolio_positions,
                IF deleteLogsError THEN sync.trading_logs
                ELSE DeleteAllRows(sync.trading_logs))
  /\ SyncRest

\* 6. the insert settles: an error is thrown; 7. the account fetch is issued
SyncLogsInserted(h) ==
  /\ SyncAt(h, "insertLogs")
  /\ \/ SyncStep(h, [sync.run[h] EXCEPT !.pc = "account"], 0,
                  sync.portfolio_positions,
                  InsertRows(sync.trading_logs, LogsToInsert(sync.run[h].orders)))
     \/ SyncCatch(h, sync.portfolio_positions, sync.trading_logs)
  /\ SyncRest

\* 7. the account arrives and the handler returns success, or alpacaRequest throws
SyncAccountFetched(h) ==
  /\ SyncAt(h, "account")
  /\ \/ SyncStep(h, [sync.run[h] EXCEPT !.pc = "idle", !.resp = SyncSuccess], h,
                  sync.portfolio_positions, sync.trading_logs)
     \/ SyncCatch(h, sync.portfolio_positions, sync.trading_logs)
  /\ SyncRest

\* the cache and the dashboard play no part
NoCache ==
  /\ memoryCache = <<>>
  /\ clock = 0
  /\ req = [r \in Handlers |-> Idle]
  /\ last = NoAnswer
  /\ lastPut = <<>>
  /\ started = 0
  /\ ticks = 0
  /\ scope = {}
  /\ kq = <<>>
  /\ kk = <<>>

InitSync ==
  /\ NoCache
  /\ NoChart
  /\ page = <<>>
  /\ \E positionsTable \in {<<>>, <<SeedRow>>}, logsTable \in {<<>>, <<SeedLog>>} :
       sync = [portfolio_positions |-> positionsTable, trading_logs |-> logsTable,
               run |-> [h \in SyncHandlers |-> SyncIdle], answered |-> 0, syncs |-> 0]

NextSync ==
  \E h \in SyncHandlers :
    \/ SyncPost(h)
    \/ SyncPositionsFetched(h)
    \/ SyncPositionsDeleted(h)
    \/ SyncPositionsInserted(h)
    \/ SyncOrdersFetched(h)
    \/ SyncLogsDeleted(h)
    \/ SyncLogsInserted(h)
    \/ SyncAccountFetched(h)

SpecSync == InitSync /\ [][NextSync]_vars

----------------------------------------------------------------------------
\* handler h has just returned
SyncAnswered(h) == sync.answered = h

(* C23: in every execution, overlapping sync requests included, when a     *)
(* sync returns success, portfolio_positions holds exactly one row for     *)
(* each position that sync fetched and trading_logs exactly one row for    *)
(* each order it fetched: no earlier row is left and none is duplicated.   *)
(* It fails without any overlap: the error of a delete is logged and the   *)
(* insert goes ahead on top of the old rows.                               *)
C23_TablesMirrorTheFetch ==
  \A h \in SyncHandlers :
    SyncAnswered(h) /\ sync.run[h].resp.success =>
      /\ sync.portfolio_positions = PositionsToInsert(sync.run[h].positions)
      /\ sync.trading_logs = LogsToInsert(sync.run[h].orders)

(* C29: when a sync fails with status 500, each of the two tables is as    *)
(* the sync found it or holds exactly the rows the sync fetched for it; a  *)
(* table is never left emptied without its replacement rows.  It fails     *)
(* when an insert fails after its delete went through.                     *)
C29_FailureLeavesOldOrNew ==
  \A h \in SyncHandlers :
    SyncAnswered(h) /\ sync.run[h].resp.status = 500 =>
      /\ \/ sync.portfolio_positions = sync.run[h].positionsBefore
         \/ sync.portfolio_positions = PositionsToInsert(sync.run[h].positions)
      /\ \/ sync.trading_logs = sync.run[h].logsBefore
         \/ sync.trading_logs = LogsToInsert(sync.run[h].orders)

----------------------------------------------------------------------------
(* The page: src/src/app/dashboard/page.tsx mounts, loads the dashboard    *)
(* data with seven requests one after the other, and refreshes on a timer. *)
(* A load runs from await to await; an action is the continuation after    *)
(* one await, with the response as its input.  The requests to /api/alpaca *)
(* are answered by the cache handler above, which reads the clock and the  *)
(* cache when the response is produced; /api/reasoning answers what it     *)
(* answers.  One load is in flight at a time.                              *)

MaxLoads == 2          \* loads started in one run, with upstream failures
MaxPageTicks == 1      \* clock advances in one run, with upstream failures
MaxRefreshes == 3      \* loads started in one run, upstream healthy
MaxRefreshTicks == 3   \* clock advances in one run, upstream healthy

REFRESH_MS == 300000

\* the clock advances by a little, by the refresh interval, or by what is left
\* of it
PageDeltas == {1, REFRESH_MS - 1, REFRESH_MS}

\* how the upstream call of a request settles, and whether the response
\* reaches the page or the fetch rejects
PageOutcomes == {"non2xx", "A"}
Nets == {"delivered", "rejected"}
Answers == {"ok", "non2xx", "rejected"}

(* The surroundings of a run: what upstream and the network can do, and    *)
(* how far the run is followed.                                            *)
Failing ==
  [outcomes |-> PageOutcomes, nets |-> Nets, answers |-> Answers,
   maxLoads |-> MaxLoads, maxTicks |-> MaxPageTicks]
Healthy ==
  [outcomes |-> {"A"}, nets |-> {"delivered"}, answers |-> {"ok"},
   maxLoads |-> MaxRefreshes, maxTicks |-> MaxRefreshTicks]

\* the request the page sends for an endpoint; the dates of the bars requests
\* are those of the portfolio history
PageQuery(endpoint) ==
  IF endpoint \in BarsEndpoints
  THEN Query(endpoint, Absent, Param(D1T), Param(D2))
  ELSE Query(endpoint, Absent, Absent, Absent)

(* GET for a cached endpoint, from the lookup to the response, when the    *)
(* upstream call (if one is made) settles with `out`: the cache after it,  *)
(* the response, whether the response came from the cache and the          *)
(* timestamp of the entry it came from.                                    *)
Served(cache, now, q, out) ==
  LET cacheKey == CacheKey(q)
      cached == CacheRead(cache, cacheKey)
      c == Continuation(q.endpoint, out)
  IN IF IsHit(cached, now, HandlerTTL(q.endpoint))
     THEN [cache |-> cache, hit |-> TRUE, timestamp |-> cached.timestamp,
           resp |-> IF HitThrows(q.endpoint, cached) THEN Response(500, ErrorBody, -1)
                    ELSE Response(200, cached.data, -1)]
     ELSE [cache |-> IF c.put THEN CachePut(cache, cacheKey, c.data, now) ELSE cache,
           hit |-> FALSE, timestamp |-> now,
           resp |-> IF c.throws THEN Response(500, ErrorBody, -1)
                    ELSE IF c.put THEN Response(200, c.data, -1)
                    ELSE Response(200, BarsNull, -1)]

\* response.ok
Ok(resp) == resp.status >= 200 /\ resp.status <= 299

\* fetchAlpacaData: the body of a 2xx response, null otherwise
FetchAlpacaData(net, resp) == IF net = "delivered" /\ Ok(resp) THEN resp.body ELSE Null

\* the sections of a snapshot that stand for missing data
ZeroedAccount == [kind |-> "zeroed", id |-> NoId]
EmptyArray == [kind |-> "empty", id |-> NoId]
EmptyHistory == [kind |-> "empty-history", id |-> NoId]
ReasoningData == [kind |-> "data", id |-> "R"]

\* positionsRaw.map(pos => ({ ..., qty: parseFloat(pos.qty), ... }))
ConvertedPositions(positionsRaw) == [kind |-> "positions", id |-> positionsRaw.id]

\* historyData?.equity && historyData?.timestamp && ... length > 0
HasHistory(historyData) == historyData # Null /\ historyData.kind = "data"

\* spyHistory && spyHistory.bars && Array.isArray(...) && length > 0
HasBars(body) == body.kind = "data"

\* the locals of loadDashboardData; seen keeps, for each request made, whether
\* it failed, what it brought, and where the server took it from (history)
NoLoad ==
  [pc |-> "idle", by |-> "none", startedAt |-> -1, afterUnmount |-> FALSE,
   accountData |-> Null, positionsRaw |-> Null, ordersData |-> Null,
   historyData |-> Null, spyData |-> Null, qqqData |-> Null, seen |-> <<>>]

NoInterval == [set |-> FALSE, due |-> -1]

Seen(failed, body, hit, timestamp) ==
  [failed |-> failed, body |-> body, hit |-> hit, timestamp |-> timestamp]

\* const snapshot: SnapshotData = { ... }
Snapshot(load, reasoningData, now) ==
  [timestamp |-> now,
   account |-> IF load.accountData # Null THEN load.accountData ELSE ZeroedAccount,
   positions |-> IF load.positionsRaw # Null /\ load.positionsRaw.kind = "data"
                 THEN ConvertedPositions(load.positionsRaw) ELSE EmptyArray,
   portfolioHistory |-> IF load.historyData # Null THEN load.historyData ELSE EmptyHistory,
   orders |-> IF load.ordersData # Null THEN load.ordersData ELSE EmptyArray,
   spyData |-> load.spyData,
   qqqData |-> load.qqqData,
   reasoning |-> reasoningData]

PageRest ==
  UNCHANGED <<req, last, lastPut, started, scope, kq, kk, chart, sync>>

\* loadDashboardData() is called: setLoading(true) and the first request
StartLoad(by) ==
  [page EXCEPT !.loading = TRUE, !.loads = @ + 1, !.done = NoLoad,
               !.load = [NoLoad EXCEPT !.pc = "account", !.by = by, !.startedAt = clock,
                                       !.afterUnmount = (page.mounted = "unmounted")]]

(* loadDashboardData returns: finally { setLoading(false) }; done keeps    *)
(* the locals of the load that has just returned (history).  After the     *)
(* load that init awaited, the interval is set.                            *)
EndLoad(load, snapshot) ==
  [page EXCEPT !.loading = FALSE, !.snapshotData = snapshot, !.load = NoLoad,
               !.done = [load EXCEPT !.pc = IF @ = "caught" THEN "caught" ELSE "returned"],
               !.interval = IF load.by = "init"
                            THEN [set |-> TRUE, due |-> clock + REFRESH_MS] ELSE @]

\* useEffect(() => { setMounted(true) }, [])
SetMounted ==
  /\ page.mounted = "no"
  /\ page' = [page EXCEPT !.mounted = "yes", !.done = NoLoad]
  /\ UNCHANGED <<memoryCache, clock, ticks>>
  /\ PageRest

\* useEffect(() => { if (!mounted) return; ... void init() }, [mounted])
InitEffect ==
  /\ page.mounted = "yes"
  /\ page.loads = 0
  /\ page' = StartLoad("init")
  /\ UNCHANGED <<memoryCache, clock, ticks>>
  /\ PageRest

\* the callback of setInterval runs, and is due again one interval later
TimerFires ==
  /\ page.interval.set
  /\ clock >= page.interval.due
  /\ page.load.pc = "idle"
  /\ page.loads < page.env.maxLoads
  /\ page' = [StartLoad("timer") EXCEPT !.interval.due = clock + REFRESH_MS]
  /\ UNCHANGED <<memoryCache, clock, ticks>>
  /\ PageRest

(* The component is unmounted.  React runs the cleanup the effect          *)
(* returned; the effect returns nothing (it calls `void init()`, and the   *)
(* function that clears the interval is the value of init's promise), so   *)
(* nothing is cleared.                                                     *)
Unmount ==
  /\ page.mounted = "yes"
  /\ page' = [page EXCEPT !.mounted = "unmounted", !.done = NoLoad]
  /\ UNCHANGED <<memoryCache, clock, ticks>>
  /\ PageRest

\* the request after endpoint e in loadDashboardData
AfterAlpaca(e, load) ==
  CASE e = "account" -> "positions"
    [] e = "positions" -> "orders"
    [] e = "orders" -> "portfolio-history"
    [] e = "portfolio-history" -> IF HasHistory(load.historyData) THEN "spy-bars"
                                  ELSE "reasoning"

\* await fetchAlpacaData(e) settles
AlpacaDataFetched(e, out, net) ==
  /\ page.load.pc = e
  /\ e \in AlpacaEndpoints
  /\ LET s == Served(memoryCache, clock, PageQuery(e), out)
         body == FetchAlpacaData(net, s.resp)
         seen == (e :> Seen(body = Null, body, net = "delivered" /\ s.hit, s.timestamp))
                   @@ page.load.seen
         got == [page.load EXCEPT
                   !.accountData = IF e = "account" THEN body ELSE @,
                   !.positionsRaw = IF e = "positions" THEN body ELSE @,
                   !.ordersData = IF e = "orders" THEN body ELSE @,
                   !.historyData = IF e = "portfolio-history" THEN body ELSE @,
                   !.seen = seen]
     IN /\ memoryCache' = IF net = "delivered" THEN s.cache ELSE memoryCache
        /\ page' = [page EXCEPT !.load = [got EXCEPT !.pc = AfterAlpaca(e, got)],
                                !.done = NoLoad]
  /\ UNCHANGED <<clock, ticks>>
  /\ PageRest

(* await fetch('/api/alpaca?endpoint=spy-bars...') settles (qqq-bars       *)
(* alike): a rejected fetch is thrown to the catch of loadDashboardData,   *)
(* which logs it; the snapshot is not set.                                 *)
BarsFetched(e, out, net) ==
  /\ page.load.pc = e
  /\ e \in {"spy-bars", "qqq-bars"}
  /\ LET s == Served(memoryCache, clock, PageQuery(e), out)
         bars == IF net = "delivered" /\ Ok(s.resp) /\ HasBars(s.resp.body)
                 THEN s.resp.body ELSE Null
         seen == (e :> Seen(net = "rejected" \/ ~Ok(s.resp), bars,
                            net = "delivered" /\ s.hit, s.timestamp))
                   @@ page.load.seen
         got == [page.load EXCEPT
                   !.spyData = IF e = "spy-bars" THEN bars ELSE @,
                   !.qqqData = IF e = "qqq-bars" THEN bars ELSE @,
                   !.seen = seen]
     IN /\ memoryCache' = IF net = "delivered" THEN s.cache ELSE memoryCache
        /\ page' = IF net = "rejected"
                   THEN EndLoad([got EXCEPT !.pc = "caught"], page.snapshotData)
                   ELSE [page EXCEPT
                           !.load = [got EXCEPT !.pc = IF e = "spy-bars" THEN "qqq-bars"
                                                       ELSE "reasoning"],
                           !.done = NoLoad]
  /\ UNCHANGED <<clock, ticks>>
  /\ PageRest

(* await fetch('/api/reasoning') settles, inside its own try; the snapshot *)
(* is built and set, and the load returns.                                 *)
ReasoningFetched(answer) ==
  /\ page.load.pc = "reasoning"
  /\ LET reasoningData == IF answer = "ok" THEN ReasoningData ELSE EmptyArray
         got == [page.load EXCEPT
                   !.seen = ("reasoning" :> Seen(answer # "ok", reasoningData, FALSE, clock))
                              @@ @]
     IN page' = EndLoad(got, Snapshot(got, reasoningData, clock))
  /\ UNCHANGED <<memoryCache, clock, ticks>>
  /\ PageRest

\* time passes
PageTick(d) ==
  /\ ticks < page.env.maxTicks
  /\ page.mounted # "no"
  /\ ticks' = ticks + 1
  /\ clock' = clock + d
  /\ page' = [page EXCEPT !.done = NoLoad]
  /\ UNCHANGED memoryCache
  /\ PageRest

\* the page before its first effect runs, in surroundings env
Opened(env) ==
  /\ NoCache
  /\ NoChart
  /\ sync = <<>>
  /\ page = [mounted |-> "no", loading |-> TRUE, snapshotData |-> Null,
             interval |-> NoInterval, load |-> NoLoad, done |-> NoLoad, loads |-> 0,
             env |-> env]

InitPage == Opened(Failing)

NextPage ==
  \/ SetMounted
  \/ InitEffect
  \/ TimerFires
  \/ Unmount
  \/ \E e \in AlpacaEndpoints, out \in page.env.outcomes, net \in page.env.nets :
       AlpacaDataFetched(e, out, net)
  \/ \E e \in {"spy-bars", "qqq-bars"}, out \in page.env.outcomes, net \in page.env.nets :
       BarsFetched(e, out, net)
  \/ \E answer \in page.env.answers : ReasoningFetched(answer)
  \/ \E d \in PageDeltas : PageTick(d)

SpecPage == InitPage /\ [][NextPage]_vars

InitRefresh == Opened(Healthy)

SpecRefresh == InitRefresh /\ [][NextPage]_vars

----------------------------------------------------------------------------
\* a load has just returned
LoadReturned == page.done.pc # "idle"

\* what the load that has just returned saw of request e
SeenBy(e) == page.done.seen[e]
Requested(e) == e \in DOMAIN page.done.seen

\* every section of the snapshot is the default where its request failed and
\* what its request brought where it succeeded
SectionsFollowRequests ==
  /\ page.snapshotData # Null
  /\ page.snapshotData.account
       = (IF SeenBy("account").failed THEN ZeroedAccount ELSE SeenBy("account").body)
  /\ page.snapshotData.positions
       = (IF SeenBy("positions").failed THEN EmptyArray
          ELSE ConvertedPositions(SeenBy("positions").body))
  /\ page.snapshotData.orders
       = (IF SeenBy("orders").failed THEN EmptyArray ELSE SeenBy("orders").body)
  /\ page.snapshotData.portfolioHistory
       = (IF SeenBy("portfolio-history").failed THEN EmptyHistory
          ELSE SeenBy("portfolio-history").body)
  /\ page.snapshotData.spyData
       = (IF Requested("spy-bars") /\ ~SeenBy("spy-bars").failed
          THEN SeenBy("spy-bars").body ELSE Null)
  /\ page.snapshotData.qqqData
       = (IF Requested("qqq-bars") /\ ~SeenBy("qqq-bars").failed
          THEN SeenBy("qqq-bars").body ELSE Null)
  /\ page.snapshotData.reasoning
       = (IF Requested("reasoning") /\ ~SeenBy("reasoning").failed
          THEN SeenBy("reasoning").body ELSE EmptyArray)

(* C21: whatever requests of a load fail (a status that is not 2xx or a    *)
(* fetch that rejects), loadDashboardData returns without an exception     *)
(* escaping, loading is false again, and the snapshot it has set holds the *)
(* default in every section whose request failed and the fetched data in   *)
(* every other section.  It fails when a bars fetch rejects: the exception *)
(* reaches the catch of loadDashboardData and no snapshot is set.          *)
C21_FailedSectionsDefaultOthersKept ==
  LoadReturned => ~page.loading /\ SectionsFollowRequests

\* the load always returns with loading false, and sets the snapshot the claim
\* describes unless a bars fetch rejected
LoadDegradesUnlessBarsReject ==
  LoadReturned =>
    /\ ~page.loading
    /\ page.done.pc = "returned" => SectionsFollowRequests
    /\ page.done.pc = "caught" =>
         \E e \in {"spy-bars", "qqq-bars"} : Requested(e) /\ SeenBy(e).failed

----------------------------------------------------------------------------
\* the loads whose requests the state knows: the one in flight and the one
\* that has just returned
KnownLoads == {page.load, page.done}

(* C22: every automatic refresh gets its account, positions, orders and    *)
(* portfolio history from a fetch the server makes during that refresh,    *)
(* never from an entry the server cached during an earlier load of the     *)
(* page.  It fails: the server keeps an entry for as long as the interval  *)
(* between refreshes, counted from the lookup of the request that made it, *)
(* and the requests of a load follow one another at varying distances.     *)
C22_RefreshFetchesAfresh ==
  \A load \in KnownLoads :
    load.by = "timer" =>
      \A e \in DOMAIN load.seen \cap AlpacaEndpoints :
        ~(load.seen[e].hit /\ load.seen[e].timestamp < load.startedAt)

----------------------------------------------------------------------------
(* C25: once the component is unmounted the interval is cleared and the    *)
(* timer starts no further load.  It fails: the function that clears the   *)
(* interval is returned by the async init, not by the effect, so React     *)
(* has no cleanup to run.                                                  *)
C25_NoRefreshAfterUnmount ==
  page.mounted = "unmounted" =>
    /\ ~page.interval.set
    /\ \A load \in KnownLoads : ~(load.by = "timer" /\ load.afterUnmount)

====
